---------------------------- MODULE Spec2Model ----------------------------
(***************************************************************************)
(* Model of the wikitext-to-statement extraction engine                    *)
(* (src/src/transform/value_parsing.py, src/src/transform/build_kg.py)     *)
(* and of its batch driver (src/src/transform/build_kg_chunked.py).        *)
(*                                                                         *)
(* Text is modelled by TLA+ strings, character by character.  The model's  *)
(* alphabet is printable ASCII (the backtick excepted) plus tab, newline,  *)
(* carriage return and form feed; the regular expressions of the source    *)
(* are translated into scanning operators that return the end of the match *)
(* the backtracking matcher of Python's re module finds.                   *)
(***************************************************************************)
EXTENDS Integers, Sequences, FiniteSets, TLC

VARIABLES
    mode,        \* which entry point of the program this behaviour exercises
    \* ---- apply_infobox on one field (build_kg.py:218-291)
    fRaw,        \* str(param.value), untrimmed
    fKind,       \* rule.get("kind", "auto")
    fProp,       \* rule["property"]
    fOut,        \* the result of apply_infobox (the statements added), or NotRun
    \* ---- build_graph_for_title on one page (build_kg.py:297-329)
    bPage,       \* the page context: title, cached payload, include_infobox
    bOut,        \* the result of the call, or NotRun
    \* ---- build_kg_chunked (build_kg_chunked.py:19-69)
    titles,      \* the titles argument
    chunk_size,  \* the chunk_size argument
    max_pages,   \* the max_pages argument (NoLimit for None, or Limit(n))
    include,     \* the include_infobox argument
    idx,         \* number of titles the for loop has consumed
    processed,   \* local variable processed
    part,        \* local variable part
    chunk,       \* local variable chunk (a set of statements)
    produced,    \* local variable produced (the paths written, in order)
    written,     \* the output directory: path -> statements serialized there
    log,         \* lines printed so far
    pc,          \* "loop", "flush" (after the loop), "done"
    \* ---- one call of a function of the library on string arguments
    cFn,         \* the function called
    cArgs,       \* its arguments (a sequence of strings)
    cOut,        \* ran: whether it has returned; value: what it returned
    \* ---- build_graph_for_title called from several workers
    workers,     \* per worker: position in build_graph_for_title and locals
    ruleSet,     \* the mappings dictionary all the calls are handed
    returned,    \* the calls that have ended, in order: page, status, graph
    \* ---- fetch_one (fetch_pages.py:39-66), then parse_cached_json
    cacheDir,    \* the directory CACHE_DIR_PAGES: path -> the JSON stored there
    indexFile,   \* the records appended to INDEX_PATH
    fetched,     \* the calls of fetch_one so far: title and how each ended
    reads        \* the last call of parse_cached_json and how it ended

vars == <<mode, fRaw, fKind, fProp, fOut, bPage, bOut, titles, chunk_size,
          max_pages, include, idx, processed, part, chunk,
          produced, written, log, pc, cFn, cArgs, cOut, workers, ruleSet, returned,
          cacheDir, indexFile, fetched, reads>>

\* None where the source returns None in place of a string
None == "None"
\* the result slot of a call that has not been made yet
NotRun == [ran |-> FALSE, status |-> "", g |-> {}]
\* max_pages: None, or an integer
NoLimit == [none |-> TRUE, n |-> 0]
Limit(n) == [none |-> FALSE, n |-> n]

(***************************************************************************)
(* Characters and strings                                                  *)
(***************************************************************************)
Max(S) == CHOOSE x \in S : \A y \in S : x >= y

\* s[i-1] of Python, or "" when i is out of range
At(s, i) == IF i >= 1 /\ i <= Len(s) THEN SubSeq(s, i, i) ELSE ""
\* s[i-1:] and s[:n]
From(s, i) == IF i > Len(s) THEN "" ELSE SubSeq(s, IF i < 1 THEN 1 ELSE i, Len(s))
Take(s, n) == IF n <= 0 THEN "" ELSE SubSeq(s, 1, IF n > Len(s) THEN Len(s) ELSE n)
\* s[i-1:j], clamped to the string as Python's slices are
Slice(s, i, j) ==
    LET a == IF i < 1 THEN 1 ELSE i
        b == IF j > Len(s) THEN Len(s) ELSE j
    IN IF b < a THEN "" ELSE SubSeq(s, a, b)

\* s.startswith(p, i-1)
MatchAt(s, i, p) == i >= 1 /\ i + Len(p) - 1 <= Len(s) /\ SubSeq(s, i, i + Len(p) - 1) = p
StartsWith(s, p) == MatchAt(s, 1, p)

\* s.find(p, from-1) + 1: the first index >= from where p occurs, 0 when none
RECURSIVE Find(_, _, _)
Find(s, p, from) ==
    IF from + Len(p) - 1 > Len(s) THEN 0
    ELSE IF MatchAt(s, from, p) THEN from
    ELSE Find(s, p, from + 1)
Contains(s, p) == Find(s, p, 1) > 0

\* s.rfind(c) + 1 for a one-character c, searching down from index i
RECURSIVE RFindFrom(_, _, _)
RFindFrom(s, c, i) ==
    IF i < 1 THEN 0 ELSE IF At(s, i) = c THEN i ELSE RFindFrom(s, c, i - 1)
RFind(s, c) == RFindFrom(s, c, Len(s))

\* the set of the characters of a string
Chars(str) == {SubSeq(str, i, i) : i \in 1..Len(str)}

UpperLetters == "ABCDEFGHIJKLMNOPQRSTUVWXYZ"
LowerLetters == "abcdefghijklmnopqrstuvwxyz"
Digits == "0123456789"
HexUpper == "0123456789ABCDEF"
\* chr(32)..chr(95) and chr(97)..chr(126); chr(96) cannot be written in a
\* TLA+ string and is outside the alphabet
PrintableLow == " !\"#$%&'()*+,-./0123456789:;<=>?@ABCDEFGHIJKLMNOPQRSTUVWXYZ[\\]^_"
PrintableHigh == "abcdefghijklmnopqrstuvwxyz{|}~"

Upper == Chars(UpperLetters)
Alpha == Chars(UpperLetters \o LowerLetters)
Digit == Chars(Digits)
HexDigit == Chars("0123456789abcdefABCDEF")
\* \s of re and the characters str.strip() removes, within the alphabet
Space == {" ", "\t", "\n", "\r", "\f"}

IsAlpha(c) == c \in Alpha
IsDigit(c) == c \in Digit
IsSpace(c) == c \in Space

\* ord(c) for the characters of the alphabet
OrdTable ==
    [c \in Chars(PrintableLow \o PrintableHigh) \cup {"\t", "\n", "\f", "\r"} |->
        CASE c = "\t" -> 9
          [] c = "\n" -> 10
          [] c = "\f" -> 12
          [] c = "\r" -> 13
          [] Contains(PrintableLow, c) -> 31 + Find(PrintableLow, c, 1)
          [] OTHER -> 96 + Find(PrintableHigh, c, 1)]
Ord(c) == OrdTable[c]

LowerTable == [c \in Upper |-> At(LowerLetters, Find(UpperLetters, c, 1))]
LowerChar(c) == IF c \in Upper THEN LowerTable[c] ELSE c

RECURSIVE LowerFrom(_, _)
LowerFrom(s, i) == IF i > Len(s) THEN "" ELSE LowerChar(At(s, i)) \o LowerFrom(s, i + 1)
\* str.lower()
Lower(s) == LowerFrom(s, 1)

\* the end of the longest run of characters of the set cs starting at i
\* (i - 1 when the run is empty)
RECURSIVE CharRunEnd(_, _, _)
CharRunEnd(s, i, cs) == IF At(s, i) \in cs THEN CharRunEnd(s, i + 1, cs) ELSE i - 1
SpaceRunEnd(s, i) == CharRunEnd(s, i, Space)

\* the start of the longest run of characters of cs that ends at i (i + 1 when empty)
RECURSIVE CharRunStart(_, _, _)
CharRunStart(s, i, cs) == IF At(s, i) \in cs THEN CharRunStart(s, i - 1, cs) ELSE i + 1

\* the first index >= from whose character is in cs, 0 when none
RECURSIVE FindAny(_, _, _)
FindAny(s, cs, from) ==
    IF from > Len(s) THEN 0
    ELSE IF At(s, from) \in cs THEN from
    ELSE FindAny(s, cs, from + 1)

\* str.lstrip() and str.strip()
LStrip(s) == From(s, SpaceRunEnd(s, 1) + 1)
\* a strip that trims the left end only
Strip_LeftOnly(s) == From(s, SpaceRunEnd(s, 1) + 1)

Strip(s) ==
    LET a == SpaceRunEnd(s, 1) + 1
        b == CharRunStart(s, Len(s), Space) - 1
    IN Slice(s, a, b)

RECURSIVE ReplaceFrom(_, _, _, _)
ReplaceFrom(s, a, b, i) ==
    IF i > Len(s) THEN ""
    ELSE IF MatchAt(s, i, a) THEN b \o ReplaceFrom(s, a, b, i + Len(a))
    ELSE At(s, i) \o ReplaceFrom(s, a, b, i + 1)
\* str.replace(a, b) for a non-empty a
Replace(s, a, b) == ReplaceFrom(s, a, b, 1)

(***************************************************************************)
(* Regular expressions.  A matcher M(s, i) gives the index of the last     *)
(* character of the match of the pattern that starts at index i, 0 when    *)
(* the pattern does not match there.  No pattern below matches the empty   *)
(* string.  The scanning operators take the matcher tabulated over the     *)
(* indexes of the subject: ends[i] = M(s, i).                              *)
(***************************************************************************)
\* re.sub(pattern, repl, s)
RECURSIVE ReSubFrom(_, _, _, _)
ReSubFrom(ends, repl, s, i) ==
    IF i > Len(s) THEN ""
    ELSE LET e == ends[i]
         IN IF e > 0 THEN repl \o ReSubFrom(ends, repl, s, e + 1)
            ELSE At(s, i) \o ReSubFrom(ends, repl, s, i + 1)
ReSub(ends, repl, s) == ReSubFrom(ends, repl, s, 1)

\* the start indexes of the matches pattern.finditer(s) yields
RECURSIVE ReStartsFrom(_, _, _)
ReStartsFrom(ends, s, i) ==
    IF i > Len(s) THEN <<>>
    ELSE LET e == ends[i]
         IN IF e > 0 THEN <<i>> \o ReStartsFrom(ends, s, e + 1)
            ELSE ReStartsFrom(ends, s, i + 1)
ReStarts(ends, s) == ReStartsFrom(ends, s, 1)

\* re.split(pattern, s) for a pattern without groups
RECURSIVE ReSplitFrom(_, _, _, _)
ReSplitFrom(ends, s, i, start) ==
    IF i > Len(s) THEN <<Slice(s, start, Len(s))>>
    ELSE LET e == ends[i]
         IN IF e > 0 THEN <<Slice(s, start, i - 1)>> \o ReSplitFrom(ends, s, e + 1, e + 1)
            ELSE ReSplitFrom(ends, s, i + 1, start)
ReSplit(ends, s) == ReSplitFrom(ends, s, 1, 1)

\* <ref[^>]*>.*?</ref>  with IGNORECASE | DOTALL
RefBlockEnd(s, i) ==
    IF Lower(Slice(s, i, i + 3)) /= "<ref" THEN 0
    ELSE LET gt == Find(s, ">", i + 4)
         IN IF gt = 0 THEN 0
            ELSE LET close == Find(Lower(s), "</ref>", gt + 1)
                 IN IF close = 0 THEN 0 ELSE close + 5

\* <ref[^/]*/\s*>  with IGNORECASE
RefSelfEnd(s, i) ==
    IF Lower(Slice(s, i, i + 3)) /= "<ref" THEN 0
    ELSE LET sl == Find(s, "/", i + 4)
         IN IF sl = 0 THEN 0
            ELSE LET e == SpaceRunEnd(s, sl + 1)
                 IN IF At(s, e + 1) = ">" THEN e + 1 ELSE 0

\* <br\s*/?>  with IGNORECASE
BrEnd(s, i) ==
    IF Lower(Slice(s, i, i + 2)) /= "<br" THEN 0
    ELSE LET j == SpaceRunEnd(s, i + 3) + 1
         IN IF MatchAt(s, j, "/>") THEN j + 1
            ELSE IF At(s, j) = ">" THEN j
            ELSE 0

\* </?[^>]+>
TagEnd(s, i) ==
    IF At(s, i) /= "<" THEN 0
    ELSE LET gt == Find(s, ">", i + 1)
         IN IF gt >= i + 2 THEN gt ELSE 0

\* [ \t\r\f\v]+
HSpaceEnd(s, i) ==
    LET e == CharRunEnd(s, i, {" ", "\t", "\r", "\f"}) IN IF e >= i THEN e ELSE 0

\* \n\s*\n+
BlankLinesEnd(s, i) ==
    IF At(s, i) /= "\n" THEN 0
    ELSE LET e == SpaceRunEnd(s, i + 1)
             N == {j \in (i + 1)..e : At(s, j) = "\n"}
         IN IF N = {} THEN 0 ELSE Max(N)

\* strip_markup that leaves the runs of blanks as they are
strip_markup_KeepsBlanks(text) ==
    LET NoRefBlocks(t) == ReSub([i \in 1..Len(t) |-> RefBlockEnd(t, i)], "", t)
        NoRefSelf(t) == ReSub([i \in 1..Len(t) |-> RefSelfEnd(t, i)], "", t)
        BrToNewline(t) == ReSub([i \in 1..Len(t) |-> BrEnd(t, i)], "\n", t)
        NoTags(t) == ReSub([i \in 1..Len(t) |-> TagEnd(t, i)], "", t)
        OneNewline(t) == ReSub([i \in 1..Len(t) |-> BlankLinesEnd(t, i)], "\n", t)
    IN Strip(OneNewline(NoTags(BrToNewline(NoRefSelf(NoRefBlocks(Strip(text)))))))

strip_markup(text) ==
    LET NoRefBlocks(t) == ReSub([i \in 1..Len(t) |-> RefBlockEnd(t, i)], "", t)
        NoRefSelf(t) == ReSub([i \in 1..Len(t) |-> RefSelfEnd(t, i)], "", t)
        BrToNewline(t) == ReSub([i \in 1..Len(t) |-> BrEnd(t, i)], "\n", t)
        NoTags(t) == ReSub([i \in 1..Len(t) |-> TagEnd(t, i)], "", t)
        OneBlank(t) == ReSub([i \in 1..Len(t) |-> HSpaceEnd(t, i)], " ", t)
        OneNewline(t) == ReSub([i \in 1..Len(t) |-> BlankLinesEnd(t, i)], "\n", t)
    IN Strip(OneNewline(OneBlank(NoTags(BrToNewline(NoRefSelf(NoRefBlocks(Strip(text))))))))

\* the list separator without its comma alternative: [\n;]+
ListSepEnd_NoComma(s, i) ==
    IF At(s, i) \in {"\n", ";"} THEN CharRunEnd(s, i, {"\n", ";"}) ELSE 0

\* [\n;]+|(?:\s*,\s*)
ListSepEnd(s, i) ==
    IF At(s, i) \in {"\n", ";"} THEN CharRunEnd(s, i, {"\n", ";"})
    ELSE LET e == SpaceRunEnd(s, i)
         IN IF At(s, e + 1) = "," THEN SpaceRunEnd(s, e + 2) ELSE 0

\* [p.strip() for p in parts if p.strip()]
RECURSIVE StripParts(_)
StripParts(parts) ==
    IF parts = <<>> THEN <<>>
    ELSE LET p == Strip(Head(parts))
         IN (IF p /= "" THEN <<p>> ELSE <<>>) \o StripParts(Tail(parts))

\* split_listish that drops the parts that are a bare conjunction
split_listish_DropsConnectives(text) ==
    LET Parts(t) == ReSplit([i \in 1..Len(t) |-> ListSepEnd(t, i)], t)
    IN SelectSeq(StripParts(Parts(strip_markup(text))), LAMBDA q : q \notin {"and", "or"})

split_listish(text) ==
    LET Parts(t) == ReSplit([i \in 1..Len(t) |-> ListSepEnd(t, i)], t)
    IN StripParts(Parts(strip_markup(text)))

\* \[\[([^\]|#]+)(?:\|[^\]]+)?\]\] : the index where group 1 stops
WikiLinkStop(s, i) == FindAny(s, {"]", "|", "#"}, i + 2)

WIKI_LINK_RE(s, i) ==
    IF ~MatchAt(s, i, "[[") THEN 0
    ELSE LET j == WikiLinkStop(s, i)
         IN IF j < i + 3 THEN 0
            ELSE IF At(s, j) = "]" THEN (IF At(s, j + 1) = "]" THEN j + 1 ELSE 0)
            ELSE IF At(s, j) = "|"
                 THEN LET k == Find(s, "]", j + 1)
                      IN IF k >= j + 2 /\ At(s, k + 1) = "]" THEN k + 1 ELSE 0
            ELSE 0

\* m.group(1) of the match of WIKI_LINK_RE that starts at i
WikiLinkGroup1(s, i) == Slice(s, i + 2, WikiLinkStop(s, i) - 1)

extract_wikilinks(text) ==
    LET Groups(st) == [n \in 1..Len(st) |-> Strip(WikiLinkGroup1(text, st[n]))]
    IN Groups(ReStarts([i \in 1..Len(text) |-> WIKI_LINK_RE(text, i)], text))

\* \(\s*\)
EmptyParenEnd(s, i) ==
    IF At(s, i) /= "(" THEN 0
    ELSE LET e == SpaceRunEnd(s, i + 1)
         IN IF At(s, e + 1) = ")" THEN e + 1 ELSE 0

parse_value(text) ==
    LET NoLinks(t) == ReSub([i \in 1..Len(t) |-> WIKI_LINK_RE(t, i)], "", t)
        NoEmptyParens(t) == ReSub([i \in 1..Len(t) |-> EmptyParenEnd(t, i)], "", t)
        Literals(cleaned) == IF cleaned /= "" THEN split_listish(cleaned) ELSE <<>>
    IN [linked_titles |-> extract_wikilinks(text),
        literal_parts |-> Literals(Strip(NoEmptyParens(NoLinks(strip_markup(text)))))]

(***************************************************************************)
(* urllib.parse: quote, urlsplit, urlunsplit (CPython 3.11)                *)
(***************************************************************************)
AlwaysSafe == Chars(UpperLetters \o LowerLetters \o Digits \o "_.-~")

\* '%XX' for one character of the alphabet
PctEncode(c) ==
    LET n == Ord(c) IN "%" \o At(HexUpper, (n \div 16) + 1) \o At(HexUpper, (n % 16) + 1)

RECURSIVE QuoteFrom(_, _, _)
QuoteFrom(s, safe, i) ==
    IF i > Len(s) THEN ""
    ELSE LET c == At(s, i)
         IN (IF c \in AlwaysSafe \/ c \in safe THEN c ELSE PctEncode(c))
            \o QuoteFrom(s, safe, i + 1)
\* quote that never escapes a percent sign
quote_KeepsPercent(s, safe) == QuoteFrom(s, safe \cup {"%"}, 1)

\* urllib.parse.quote(s, safe=safe), safe given as a set of characters
quote(s, safe) == QuoteFrom(s, safe, 1)

scheme_chars == Chars(LowerLetters \o UpperLetters \o Digits \o "+-.")

\* url.lstrip(_WHATWG_C0_CONTROL_OR_SPACE), within the alphabet
LStripC0(s) == LStrip(s)

ColonEnd(s, i) == IF At(s, i) = ":" THEN i ELSE 0

\* _BaseV6._parse_hextet(h) returns without raising
IsHextet(h) ==
    Len(h) \in 1..4 /\ \A i \in 1..Len(h) : At(h, i) \in HexDigit

\* '%x' % n
RECURSIVE ToHexLower(_)
ToHexLower(n) ==
    IF n < 16 THEN At("0123456789abcdef", n + 1)
    ELSE ToHexLower(n \div 16) \o At("0123456789abcdef", (n % 16) + 1)

\* IPv4Address._parse_octet(o): the octet, or -1 where it raises ValueError
\* (empty, not all ASCII decimal digits, more than three characters, a
\* leading zero, above 255)
parse_octet(o) ==
    IF \/ o = ""
       \/ \E i \in 1..Len(o) : At(o, i) \notin Digit
       \/ Len(o) > 3
       \/ (o /= "0" /\ At(o, 1) = "0")
    THEN -1
    ELSE LET \* int(o, 10)
             Value(d) ==
                 IF Len(d) = 1 THEN d[1]
                 ELSE IF Len(d) = 2 THEN d[1] * 10 + d[2]
                 ELSE d[1] * 100 + d[2] * 10 + d[3]
             InRange(n) == IF n > 255 THEN -1 ELSE n
         IN InRange(Value([i \in 1..Len(o) |-> Find(Digits, At(o, i), 1) - 1]))

\* IPv4Address(s): the four octets of the address, or <<>> where it raises
\* AddressValueError
IPv4Address(s) ==
    LET AllParsed(v) == IF \E i \in 1..4 : v[i] < 0 THEN <<>> ELSE v
        Octets(octets) ==
            IF Len(octets) /= 4 THEN <<>>
            ELSE AllParsed([i \in 1..4 |-> parse_octet(octets[i])])
    IN IF Contains(s, "/") THEN <<>>
       ELSE Octets(ReSplit([i \in 1..Len(s) |-> IF At(s, i) = "." THEN i ELSE 0], s))

\* ipaddress.IPv6Address(h) is accepted: _split_scope_id cuts the zone id
\* at the first '%', then _ip_int_from_string replaces an IPv4-style last part
\* by its two hextets and reads the parts around at most one '::' as hextets
IsIPv6(h) ==
    /\ ~Contains(h, "/")
    /\ \E pct \in {Find(h, "%", 1)} :
         /\ pct > 0 => (pct < Len(h) /\ Find(h, "%", pct + 1) = 0)
         /\ \E addr \in {IF pct = 0 THEN h ELSE Take(h, pct - 1)} :
            \E split \in {ReSplit([i \in 1..Len(addr) |-> ColonEnd(addr, i)], addr)} :
              /\ Len(split) >= 3
              /\ \E dotted \in {Contains(split[Len(split)], ".")} :
                 \E v4 \in {IF dotted THEN IPv4Address(split[Len(split)]) ELSE <<>>} :
                   /\ dotted => v4 /= <<>>
                   /\ \E parts \in {IF dotted
                                    THEN SubSeq(split, 1, Len(split) - 1)
                                         \o <<ToHexLower(v4[1] * 256 + v4[2]),
                                              ToHexLower(v4[3] * 256 + v4[4])>>
                                    ELSE split} :
                      \E n \in {Len(parts)} :
                      \E empties \in {{k \in 2..(n - 1) : parts[k] = ""}} :
                        /\ n <= 9
                        /\ Cardinality(empties) <= 1
                        /\ IF empties /= {}
                           THEN \E k \in empties :
                                  \E hi \in {IF parts[1] = "" THEN k - 2 ELSE k - 1} :
                                    \E lo \in {IF parts[n] = "" THEN n - k - 1 ELSE n - k} :
                                       /\ (parts[1] = "" => hi = 0)
                                       /\ (parts[n] = "" => lo = 0)
                                       /\ 8 - (hi + lo) >= 1
                                       /\ \A i \in 1..hi : IsHextet(parts[i])
                                       /\ \A i \in (n - lo + 1)..n : IsHextet(parts[i])
                           ELSE /\ n = 8
                                /\ \A i \in 1..n : IsHextet(parts[i])

\* _check_bracketed_host(hostname) returns without raising
BracketedHostOk(h) ==
    IF StartsWith(h, "v")
    THEN \* \Av[a-fA-F0-9]+\..+\Z
         LET e == CharRunEnd(h, 2, HexDigit)
         IN \E d \in 3..(e + 1) : At(h, d) = "." /\ d < Len(h)
    ELSE IsIPv6(h)

\* urlsplit(url): ok is FALSE where urlsplit raises ValueError
urlsplit(url) ==
    LET \* the query is split off what the fragment left
        SplitQuery(scheme, netloc, raises, fragment, u) ==
            LET q == Find(u, "?", 1)
            IN [ok |-> ~raises, scheme |-> scheme, netloc |-> netloc,
                path |-> IF q > 0 THEN Take(u, q - 1) ELSE u,
                query |-> IF q > 0 THEN From(u, q + 1) ELSE "",
                fragment |-> fragment]
        \* the bracket checks on the netloc, then the fragment
        SplitFragment(scheme, hasNetloc, netloc, u) ==
            LET lb == Contains(netloc, "[")
                rb == Contains(netloc, "]")
                a == From(netloc, Find(netloc, "[", 1) + 1)
                c == Find(a, "]", 1)
                host == IF c = 0 THEN a ELSE Take(a, c - 1)
                h == Find(u, "#", 1)
            IN SplitQuery(scheme, netloc,
                          hasNetloc /\ ((lb /= rb) \/ (lb /\ rb /\ ~BracketedHostOk(host))),
                          IF h > 0 THEN From(u, h + 1) ELSE "",
                          IF h > 0 THEN Take(u, h - 1) ELSE u)
        \* the netloc runs from "//" to the first of "/", "?", "#"
        SplitNetloc(scheme, u) ==
            LET hasNetloc == StartsWith(u, "//")
                d0 == FindAny(u, {"/", "?", "#"}, 3)
                delim == IF d0 = 0 THEN Len(u) + 1 ELSE d0
            IN SplitFragment(scheme, hasNetloc,
                             IF hasNetloc THEN Slice(u, 3, delim - 1) ELSE "",
                             IF hasNetloc THEN From(u, delim) ELSE u)
        \* the scheme is what precedes the first ":" when it is well formed
        SplitScheme(u) ==
            LET i == Find(u, ":", 1)
                hasScheme == /\ i > 1
                             /\ IsAlpha(At(u, 1))
                             /\ \A k \in 1..(i - 1) : At(u, k) \in scheme_chars
            IN SplitNetloc(IF hasScheme THEN Lower(Take(u, i - 1)) ELSE "",
                           IF hasScheme THEN From(u, i + 1) ELSE u)
    IN SplitScheme(Replace(Replace(Replace(LStripC0(url), "\t", ""), "\r", ""), "\n", ""))

\* urlunsplit((scheme, netloc, path, query, fragment)) for a non-empty netloc
urlunsplit(scheme, netloc, path, query, fragment) ==
    LET u0 == IF path /= "" /\ At(path, 1) /= "/" THEN "/" \o path ELSE path
        u1 == "//" \o netloc \o u0
        u2 == IF scheme /= "" THEN scheme \o ":" \o u1 ELSE u1
        u3 == IF query /= "" THEN u2 \o "?" \o query ELSE u2
    IN IF fragment /= "" THEN u3 \o "#" \o fragment ELSE u3

(***************************************************************************)
(* build_kg.py: identifiers and URLs                                       *)
(***************************************************************************)
KG_BASE == "http://localhost:5000"
TG_WIKI_BASE == "https://tolkiengateway.net/wiki/"
RES == KG_BASE \o "/resource/"
PAGE == KG_BASE \o "/page/"
SCHEMA == "http://schema.org/"
RDF_type == "http://www.w3.org/1999/02/22-rdf-syntax-ns#type"
RDFS_label == "http://www.w3.org/2000/01/rdf-schema#label"
OWL_sameAs == "http://www.w3.org/2002/07/owl#sameAs"

BAD_LINK_PREFIXES == {"category:", "file:", "template:", "help:", "special:", "talk:"}
\* t.lower().startswith(BAD_LINK_PREFIXES)
HasBadPrefix(t) == \E p \in BAD_LINK_PREFIXES : StartsWith(Lower(t), p)

\* normalize_template_name that also takes hyphens for blanks
normalize_template_name_Hyphens(name) ==
    Replace(Replace(Lower(Strip(name)), "_", " "), "-", " ")

normalize_template_name(name) == Replace(Lower(Strip(name)), "_", " ")

\* uri_escape_title that escapes neither "/" nor "%"
uri_escape_title_SlashSafe(title) == quote(Replace(Strip(title), " ", "_"), {"/", "%"})

uri_escape_title(title) == quote(Replace(Strip(title), " ", "_"), {})
resource_uri(title) == RES \o uri_escape_title(title)
page_uri(title) == PAGE \o uri_escape_title(title)
wiki_url(title) == TG_WIKI_BASE \o uri_escape_title(title)

\* the safe= arguments of safe_iri
SafePath == Chars("/:_()'-.,~%")
SafeQuery == Chars("=&?/:_()'-.,~%")
SafeFragment == Chars(":_()'-.,~%")

\* safe_iri without the except clause: the ValueError of urlsplit gets out
safe_iri_Uncaught(url) ==
    LET Escaped(parts) ==
            IF ~parts.ok THEN "raise ValueError"
            ELSE IF parts.scheme = "" \/ parts.netloc = "" THEN None
            ELSE urlunsplit(parts.scheme, parts.netloc,
                            quote(parts.path, SafePath),
                            quote(parts.query, SafeQuery),
                            quote(parts.fragment, SafeFragment))
        Checked(u) == IF u = "" THEN None ELSE Escaped(urlsplit(u))
    IN Checked(Strip(url))

\* safe_iri(url) for a string url; None where the source returns None
safe_iri(url) ==
    LET Escaped(parts) ==
            IF ~parts.ok THEN None
            ELSE IF parts.scheme = "" \/ parts.netloc = "" THEN None
            ELSE urlunsplit(parts.scheme, parts.netloc,
                            quote(parts.path, SafePath),
                            quote(parts.query, SafeQuery),
                            quote(parts.fragment, SafeFragment))
        Checked(u) == IF u = "" THEN None ELSE Escaped(urlsplit(u))
    IN Checked(Strip(url))

\* URL_RE with a class that lets blanks into the URL: https?://[^\]]+
URL_RE_ThroughBlanks(s, i) ==
    IF ~MatchAt(s, i, "http") THEN 0
    ELSE LET b == IF MatchAt(s, i + 4, "s://") THEN i + 8
                  ELSE IF MatchAt(s, i + 4, "://") THEN i + 7
                  ELSE 0
             stop == FindAny(s, {"]"}, b)
             e == IF stop = 0 THEN Len(s) ELSE stop - 1
         IN IF b = 0 THEN 0
            ELSE IF e >= b THEN e ELSE 0

\* https?://[^\s\]]+
URL_RE(s, i) ==
    IF ~MatchAt(s, i, "http") THEN 0
    ELSE LET b == IF MatchAt(s, i + 4, "s://") THEN i + 8
                  ELSE IF MatchAt(s, i + 4, "://") THEN i + 7
                  ELSE 0
             stop == FindAny(s, Space \cup {"]"}, b)
             e == IF stop = 0 THEN Len(s) ELSE stop - 1
         IN IF b = 0 THEN 0
            ELSE IF e >= b THEN e ELSE 0

extract_urls(raw) ==
    LET Matches(st) == [n \in 1..Len(st) |-> Slice(raw, st[n], URL_RE(raw, st[n]))]
    IN IF Strip(raw) = "" THEN <<>>
       ELSE Matches(ReStarts([i \in 1..Len(raw) |-> URL_RE(raw, i)], raw))

\* ^[a-zA-Z0-9.-]+\.[a-zA-Z]{2,}(/.*)?$ matches u (u has no trailing newline)
BareDomain(u) ==
    LET sl == Find(u, "/", 1)
        dom == IF sl = 0 THEN u ELSE Take(u, sl - 1)
        rest == IF sl = 0 THEN "" ELSE From(u, sl)
        dot == RFind(dom, ".")
    IN /\ \A i \in 1..Len(dom) :
              LET c == At(dom, i) IN IsAlpha(c) \/ IsDigit(c) \/ c = "." \/ c = "-"
       /\ dot >= 2
       /\ Len(dom) - dot >= 2
       /\ \A i \in (dot + 1)..Len(dom) : IsAlpha(At(dom, i))
       /\ ~Contains(rest, "\n")

\* normalize_url that takes every value for a bare domain
normalize_url_BareDomainOnly(url) ==
    LET Normalized(u) ==
            IF u = "" THEN None
            ELSE IF BareDomain(u) THEN safe_iri("https://" \o u)
            ELSE None
    IN Normalized(Strip(strip_markup(url)))

normalize_url(url) ==
    LET Http(u) == StartsWith(u, "http://") \/ StartsWith(u, "https://")
        Normalized(u) ==
            IF u = "" THEN None
            ELSE IF Http(u) \/ BareDomain(u)
                 THEN safe_iri(IF Http(u) THEN u ELSE "https://" \o u)
            ELSE None
    IN Normalized(Strip(strip_markup(url)))

\* image_filename_to_filepage_url that only knows the qualifier as "File:"
image_filename_to_filepage_url_CaseSensitive(filename) ==
    LET FilePage(f) ==
            IF f = "" THEN None
            ELSE TG_WIKI_BASE \o "File:"
                 \o uri_escape_title(IF StartsWith(f, "File:") THEN From(f, 6) ELSE f)
    IN FilePage(Strip(strip_markup(filename)))

image_filename_to_filepage_url(filename) ==
    LET FilePage(f) ==
            IF f = "" THEN None
            ELSE TG_WIKI_BASE \o "File:"
                 \o uri_escape_title(IF StartsWith(Lower(f), "file:") THEN From(f, 6) ELSE f)
    IN FilePage(Strip(strip_markup(filename)))

(***************************************************************************)
(* Statements.  A graph is a set of statements; an object is an IRI, a     *)
(* plain literal or an English-tagged literal.                             *)
(***************************************************************************)
URIRef(v) == [k |-> "iri", v |-> v]
Literal(v) == [k |-> "lit", v |-> v]
LiteralEn(v) == [k |-> "lit@en", v |-> v]
Triple(s, p, o) == [s |-> s, p |-> p, o |-> o]

SCHEMA_url == SCHEMA \o "url"
SCHEMA_about == SCHEMA \o "about"
SCHEMA_relatedTo == SCHEMA \o "relatedTo"

\* \w of re, within the alphabet
WordChars == Chars(UpperLetters \o LowerLetters \o Digits \o "_")

\* [^\w\-. ]+
UnsafeFileRunEnd(s, i) ==
    LET stop == FindAny(s, WordChars \cup {"-", ".", " "}, i)
        e == IF stop = 0 THEN Len(s) ELSE stop - 1
    IN IF e >= i THEN e ELSE 0

CACHE_DIR_PAGES == "data/cache/pages"

safe_filename(title) ==
    LET Underscored(t) ==
            Replace(ReSub([i \in 1..Len(t) |-> UnsafeFileRunEnd(t, i)], "_", t), " ", "_")
        Truncated(s0) == IF Len(s0) > 200 THEN Take(s0, 200) ELSE s0
    IN Truncated(Underscored(Strip(title)))

cached_path_for_title(title) == CACHE_DIR_PAGES \o "/" \o safe_filename(title) \o ".json"

\* extract_links over the "title" entries of parse.links
extract_links(links) ==
    SelectSeq(links, LAMBDA t : t /= "" /\ ~HasBadPrefix(t))

RECURSIVE filter_templates(_)
\* code.filter_templates(recursive=True): the template invocations of a
\* document in document order, each one before the invocations nested in it
filter_templates(nodes) ==
    IF nodes = <<>> THEN <<>>
    ELSE <<Head(nodes)>> \o filter_templates(Head(nodes).nested)
                        \o filter_templates(Tail(nodes))

\* find_mapped_templates that keeps one invocation per mapped template
find_mapped_templates_FirstOfEach(tmpls, mappings) ==
    LET Kept(i) ==
            /\ normalize_template_name(tmpls[i].name) \in DOMAIN mappings
            /\ \A j \in 1..(i - 1) :
                  normalize_template_name(tmpls[j].name)
                      /= normalize_template_name(tmpls[i].name)
        Walk[i \in 1..(Len(tmpls) + 1)] ==
            IF i > Len(tmpls) THEN <<>>
            ELSE IF Kept(i) THEN <<tmpls[i]>> \o Walk[i + 1]
            ELSE Walk[i + 1]
    IN Walk[1]

\* the templates find_mapped_templates keeps, in document order; tmpls is
\* what filter_templates(recursive=True) yields for the page's wikitext
find_mapped_templates(tmpls, mappings) ==
    SelectSeq(tmpls, LAMBDA t : normalize_template_name(t.name) \in DOMAIN mappings)

\* add_core_triples that labels with the normalized title
add_core_triples_NormalizedLabel(title) ==
    LET Core(p, r, wurl, label) ==
            {Triple(p, SCHEMA_about, URIRef(r)),
             Triple(p, SCHEMA_url, URIRef(wurl)),
             Triple(r, SCHEMA_url, URIRef(wurl)),
             Triple(r, RDFS_label, LiteralEn(label)),
             Triple(p, RDFS_label, LiteralEn(label))}
    IN Core(page_uri(title), resource_uri(title), wiki_url(title),
            Replace(Strip(title), " ", "_"))

add_core_triples(title) ==
    LET Core(p, r, wurl) ==
            {Triple(p, SCHEMA_about, URIRef(r)),
             Triple(p, SCHEMA_url, URIRef(wurl)),
             Triple(r, SCHEMA_url, URIRef(wurl)),
             Triple(r, RDFS_label, LiteralEn(title)),
             Triple(p, RDFS_label, LiteralEn(title))}
    IN Core(page_uri(title), resource_uri(title), wiki_url(title))

\* the elements of a sequence
Range(f) == {f[i] : i \in DOMAIN f}

\* UrlFieldTriples that keeps the value as a literal when nothing normalizes
UrlFieldTriples_LiteralFallback(r, prop, raw) ==
    LET Emit(iris) ==
            IF iris /= {} THEN {Triple(r, prop, URIRef(v)) : v \in iris}
            ELSE {Triple(r, prop, Literal(strip_markup(raw)))}
        Candidates(urls) == IF urls /= <<>> THEN Range(urls) ELSE {raw}
    IN Emit({normalize_url(u) : u \in Candidates(extract_urls(raw))} \ {None})

\* build_kg.py:249-262, the statements of a field whose predicate is
\* schema:url: the URLs found in raw, or else raw itself, each normalized,
\* those that do not normalize being skipped
UrlFieldTriples(r, prop, raw) ==
    LET Candidates(urls) == IF urls /= <<>> THEN Range(urls) ELSE {raw}
    IN {Triple(r, prop, URIRef(nu)) :
           nu \in {normalize_url(u) : u \in Candidates(extract_urls(raw))} \ {None}}

\* build_kg.py:264-269
ImageFieldTriples(r, prop, raw) ==
    {Triple(r, prop, URIRef(url)) : url \in {image_filename_to_filepage_url(raw)} \ {None}}

\* AutoFieldTriples without the filter on BAD_LINK_PREFIXES
AutoFieldTriples_NoPrefixFilter(r, prop, raw) ==
    LET Emit(linked_titles, literal_parts) ==
            {Triple(r, prop, URIRef(resource_uri(t))) :
                t \in {x \in Range(linked_titles) : x /= ""}}
            \cup {Triple(r, prop, Literal(lit)) : lit \in {x \in Range(literal_parts) : x /= ""}}
            \cup (IF linked_titles = <<>> /\ literal_parts = <<>>
                  THEN {Triple(r, prop, Literal(strip_markup(raw)))}
                  ELSE {})
        Parsed(pv) == Emit(pv.linked_titles, pv.literal_parts)
    IN Parsed(parse_value(raw))

\* build_kg.py:278-288
AutoFieldTriples(r, prop, raw) ==
    LET Emit(linked_titles, literal_parts) ==
            {Triple(r, prop, URIRef(resource_uri(t))) :
                t \in {x \in Range(linked_titles) : x /= "" /\ ~HasBadPrefix(x)}}
            \cup {Triple(r, prop, Literal(lit)) : lit \in {x \in Range(literal_parts) : x /= ""}}
            \cup (IF linked_titles = <<>> /\ literal_parts = <<>>
                  THEN {Triple(r, prop, Literal(strip_markup(raw)))}
                  ELSE {})
        Parsed(pv) == Emit(pv.linked_titles, pv.literal_parts)
    IN Parsed(parse_value(raw))

\* build_kg.py:245-291, one parameter whose stripped value raw is not empty;
\* kind "literal" (274-276) and the fallback for any other kind (291) add the
\* same statement
FieldTriples(r, prop, kind, raw) ==
    IF prop = SCHEMA_url THEN UrlFieldTriples(r, prop, raw)
    ELSE IF kind = "image" THEN ImageFieldTriples(r, prop, raw)
    ELSE IF kind /= "literal" /\ kind \in {"wikilink_or_literal", "auto"}
         THEN AutoFieldTriples(r, prop, raw)
    ELSE {Triple(r, prop, Literal(strip_markup(raw)))}

\* rule.get("kind", "auto")
RuleKind(rule) == IF "kind" \in DOMAIN rule THEN rule.kind ELSE "auto"

\* the loop over tmpl.params from parameter i on: the statements added, and
\* whether rule["property"] raised KeyError on the way
RECURSIVE ApplyParams(_, _, _, _)
ApplyParams(r, params, fields, i) ==
    IF i > Len(params) THEN [raised |-> FALSE, g |-> {}]
    ELSE LET key == Lower(Strip(params[i].name))
             raw == Strip(params[i].value)
         IN IF key \notin DOMAIN fields \/ raw = ""
            THEN ApplyParams(r, params, fields, i + 1)
            ELSE IF "property" \notin DOMAIN fields[key]
            THEN [raised |-> TRUE, g |-> {}]
            ELSE LET rest == ApplyParams(r, params, fields, i + 1)
                 IN [raised |-> rest.raised,
                     g |-> FieldTriples(r, fields[key].property, RuleKind(fields[key]), raw)
                           \cup rest.g]

\* spec.get("class"), spec.get("tg_class")
TypeTriples(r, spec) ==
    {Triple(r, RDF_type, URIRef(spec[c])) :
        c \in {x \in {"class", "tg_class"} : x \in DOMAIN spec /\ spec[x] /= ""}}

\* apply_infobox(g, r, tmpl, mappings): the statements added to g, and whether
\* the call raised
apply_infobox(r, tmpl, mappings) ==
    LET Added(spec, body) == [raised |-> body.raised, g |-> TypeTriples(r, spec) \cup body.g]
        Fields(spec) == IF "fields" \in DOMAIN spec THEN spec.fields ELSE <<>>
        Apply(spec) == Added(spec, ApplyParams(r, tmpl.params, Fields(spec), 1))
        Lookup(name) ==
            IF name \notin DOMAIN mappings THEN [raised |-> FALSE, g |-> {}]
            ELSE Apply(mappings[name])
    IN Lookup(normalize_template_name(tmpl.name))

\* external_triple that keeps an unescapable link as an IRI
external_triple_RawIri(p, r, u) ==
    LET Emit(safe) ==
            IF Contains(Lower(u), "wikipedia.org/wiki/") /\ safe /= None
            THEN Triple(r, OWL_sameAs, URIRef(safe))
            ELSE Triple(p, SCHEMA_url, URIRef(IF safe /= None THEN safe ELSE u))
    IN Emit(safe_iri(u))

\* build_kg.py:314-323, one external link
external_triple(p, r, u) ==
    LET Emit(safe) ==
            IF Contains(Lower(u), "wikipedia.org/wiki/") /\ safe /= None
            THEN Triple(r, OWL_sameAs, URIRef(safe))
            ELSE IF safe /= None THEN Triple(p, SCHEMA_url, URIRef(safe))
            ELSE Triple(p, SCHEMA_url, Literal(u))
    IN Emit(safe_iri(u))

\* build_kg.py:325-327, the loop over the mapped templates from template i on
RECURSIVE ApplyTemplates(_, _, _, _)
ApplyTemplates(r, tmpls, mappings, i) ==
    LET Both(one, rest) == [raised |-> rest.raised, g |-> one.g \cup rest.g]
        Then(one) ==
            IF one.raised THEN [raised |-> TRUE, g |-> {}]
            ELSE Both(one, ApplyTemplates(r, tmpls, mappings, i + 1))
    IN IF i > Len(tmpls) THEN [raised |-> FALSE, g |-> {}]
       ELSE Then(apply_infobox(r, tmpls[i], mappings))

\* build_graph_for_title: cache maps the paths of the cached files to their
\* parsed payloads.  status is "ok" and g the returned graph, or status names
\* the exception the call raised.
build_graph_for_title(title, cache, mappings, include_infobox) ==
    LET Returned(core, links, externals, infobox) ==
            IF infobox.raised THEN [status |-> "KeyError", g |-> {}]
            ELSE [status |-> "ok", g |-> core \cup links \cup externals \cup infobox.g]
        Assemble(parse_json, p, r) ==
            Returned(add_core_triples(title),
                     {Triple(r, SCHEMA_relatedTo, URIRef(resource_uri(lt))) :
                         lt \in Range(extract_links(parse_json.links))},
                     {external_triple(p, r, u) : u \in Range(parse_json.externallinks)},
                     IF include_infobox
                     THEN ApplyTemplates(r, find_mapped_templates(parse_json.templates,
                                                                  mappings),
                                         mappings, 1)
                     ELSE [raised |-> FALSE, g |-> {}])
        Load(path) ==
            IF path \notin DOMAIN cache THEN [status |-> "FileNotFoundError", g |-> {}]
            ELSE Assemble(cache[path], page_uri(title), resource_uri(title))
    IN Load(cached_path_for_title(title))

(***************************************************************************)
(* Configuration: the mapping rule set load_infobox_mappings returns (keys *)
(* already normalized).  The rule "text" of "quote" has no "property", so  *)
(* that rule["property"] raises KeyError when it is applied.               *)
(***************************************************************************)
PROP == KG_BASE \o "/prop/"
TG == KG_BASE \o "/vocab/"

Mappings ==
    ("infobox character" :>
        [class |-> SCHEMA \o "Person",
         tg_class |-> TG \o "Character",
         fields |-> ("race" :> [property |-> PROP \o "race", kind |-> "wikilink_or_literal"]
                  @@ "image" :> [property |-> SCHEMA \o "image", kind |-> "image"]
                  @@ "website" :> [property |-> SCHEMA_url, kind |-> "literal"]
                  @@ "birth" :> [property |-> PROP \o "birth", kind |-> "literal"]
                  @@ "titles" :> [property |-> PROP \o "titles"])])
 @@ ("infobox place" :>
        [class |-> SCHEMA \o "Place",
         fields |-> ("realm" :> [property |-> PROP \o "realm", kind |-> "auto"])])
 @@ ("quote" :>
        [tg_class |-> TG \o "Quote",
         fields |-> ("text" :> [kind |-> "literal"])])

(***************************************************************************)
(* Field mapper on one field: apply_infobox on an invocation with a single *)
(* parameter, under a rule set with a single rule of the drawn kind and    *)
(* predicate.                                                              *)
(***************************************************************************)
MaxFrags == 2

Fragments == {"[[Gondor]]", "[[File:x.jpg]]", "Elf", ", ", "<ref>c</ref>", "http://a.b/c", " "}

RECURSIVE Concats(_)
\* the concatenations of at most n fragments
Concats(n) ==
    IF n = 0 THEN {""}
    ELSE LET shorter == Concats(n - 1)
         IN shorter \cup {a \o b : a \in shorter, b \in Fragments}

Examples ==
    {"see http://example.com/a b and more", "not a url", "Elrond.jpg",
     "File:Elrond.jpg", "[[Half-elven|Half-elf]] and [[Man]]", "www.example.com/a b",
     "[http://example.com label]", "http://[bad/x", "[[ ]]", "a; b, c",
     "fIlE:Elrond 1.jpg", "File:"}

RawValues == Concats(MaxFrags) \cup Examples
Kinds == {"literal", "image", "wikilink_or_literal", "auto", "date"}
FieldProps == {SCHEMA_url, PROP \o "value"}

FieldSubject == resource_uri("Elrond")
FieldTemplate(raw) == [name |-> "Infobox_Field ", params |-> <<[name |-> " Value", value |-> raw]>>]
FieldMappings(prop, kind) ==
    ("infobox field" :> [fields |-> ("value" :> [property |-> prop, kind |-> kind])])

DriverIdle ==
    /\ titles = <<>> /\ chunk_size = 0 /\ max_pages = NoLimit /\ include = FALSE
    /\ idx = 0 /\ processed = 0 /\ part = 0 /\ chunk = {}
    /\ produced = <<>> /\ written = <<>> /\ log = <<>> /\ pc = "idle"
FieldIdle == fRaw = "" /\ fKind = "" /\ fProp = "" /\ fOut = NotRun
NoPage == [title |-> "", cached |-> FALSE, links |-> <<>>, externallinks |-> <<>>,
           templates |-> <<>>, include |-> FALSE]
BuildIdle == bPage = NoPage /\ bOut = NotRun

CallIdle == cFn = "" /\ cArgs = <<>> /\ cOut = [ran |-> FALSE]
WorkersIdle == workers = <<>> /\ ruleSet = <<>> /\ returned = <<>>
PipeIdle == cacheDir = <<>> /\ indexFile = <<>> /\ fetched = <<>> /\ reads = [ran |-> FALSE]

callVars == <<cFn, cArgs, cOut>>
workerVars == <<workers, ruleSet, returned>>
pipeVars == <<cacheDir, indexFile, fetched, reads>>
driverVars == <<titles, chunk_size, max_pages, include, idx, processed, part, chunk,
                produced, written, log, pc>>
fieldVars == <<fRaw, fKind, fProp, fOut>>
buildVars == <<bPage, bOut>>

InitField ==
    /\ mode = "field"
    /\ fRaw \in RawValues
    /\ fKind \in Kinds
    /\ fProp \in FieldProps
    /\ fOut = NotRun
    /\ BuildIdle
    /\ DriverIdle
    /\ CallIdle
    /\ WorkersIdle
    /\ PipeIdle

\* apply_infobox(g, r, tmpl, mappings) on an empty g
ApplyField ==
    /\ mode = "field"
    /\ ~fOut.ran
    /\ \E res \in {apply_infobox(FieldSubject, FieldTemplate(fRaw),
                                 FieldMappings(fProp, fKind))} :
          fOut' = [ran |-> TRUE, status |-> IF res.raised THEN "KeyError" ELSE "ok",
                   g |-> res.g]
    /\ UNCHANGED <<mode, fRaw, fKind, fProp>>
    /\ UNCHANGED buildVars
    /\ UNCHANGED driverVars
    /\ UNCHANGED callVars
    /\ UNCHANGED workerVars
    /\ UNCHANGED pipeVars

NextField == ApplyField
SpecField == InitField /\ [][NextField]_vars

FieldDone == mode = "field" /\ fOut.ran

(***************************************************************************)
(* Claims about the field mapper, checked under SpecField                  *)
(***************************************************************************)
AutoKinds == {"wikilink_or_literal", "auto"}
\* the case of C4 and C5: an auto-kind rule on a predicate other than
\* schema:url, applied to a value that is not empty after trimming
AutoFieldDone ==
    FieldDone /\ fKind \in AutoKinds /\ fProp /= SCHEMA_url /\ Strip(fRaw) /= ""

XRef(t) == Triple(FieldSubject, fProp, URIRef(RES \o uri_escape_title(t)))
Lit(v) == Triple(FieldSubject, fProp, Literal(v))

\* C4: for a rule of kind wikilink_or_literal or auto on a predicate other
\* than schema:url, every parameter whose trimmed value is non-empty yields
\* at least one statement.
C4_NonEmptyFieldYieldsStatement == AutoFieldDone => fOut.g /= {}

\* C5 as stated: the statements emitted for a value are exactly one
\* cross-reference per linked title the classifier returned and one literal
\* per literal part, no linked title being skipped.
C5_EveryLinkedTitleEmitted ==
    AutoFieldDone =>
        LET pv == parse_value(Strip(fRaw))
        IN fOut.g = {XRef(t) : t \in Range(pv.linked_titles)}
                    \cup {Lit(v) : v \in Range(pv.literal_parts)}

\* C5 amended: the statements are one cross-reference per linked title that
\* is non-empty and does not start with a non-content namespace prefix
\* (BAD_LINK_PREFIXES, compared in lower case), one literal per literal part,
\* and, when the classifier returned no linked title and no literal part,
\* the single literal of the stripped raw value.
C5_ContentLinkedTitlesEmitted ==
    AutoFieldDone =>
        LET pv == parse_value(Strip(fRaw))
            content == {t \in Range(pv.linked_titles) :
                           t /= "" /\ \A b \in BAD_LINK_PREFIXES : ~StartsWith(Lower(t), b)}
            fallback == IF pv.linked_titles = <<>> /\ pv.literal_parts = <<>>
                        THEN {Lit(strip_markup(Strip(fRaw)))}
                        ELSE {}
        IN fOut.g = {XRef(t) : t \in content}
                    \cup {Lit(v) : v \in Range(pv.literal_parts)}
                    \cup fallback

\* a value with a skipped namespace link next to a literal part
C5_Witness ==
    /\ AutoFieldDone
    /\ \E t \in Range(parse_value(Strip(fRaw)).linked_titles) : HasBadPrefix(t)
    /\ \E st \in fOut.g : st.o.k = "lit"

\* the objects the URL Normalizer gives for the embedded URLs of raw and for
\* raw as a whole
UrlCandidates(raw) ==
    {normalize_url(u) : u \in Range(extract_urls(raw)) \cup {raw}} \ {None}

\* C6: for a rule whose predicate is schema:url, whatever its kind, every
\* emitted statement has an IRI object obtained from the URL Normalizer (an
\* absolute http(s) reference without whitespace); when nothing normalizes,
\* no statement is emitted, and never a plain literal ("not a url" yields
\* zero statements).
C6_UrlFieldEmitsOnlyIris ==
    (FieldDone /\ fProp = SCHEMA_url) =>
        LET raw == Strip(fRaw)
        IN /\ \A st \in fOut.g :
                 /\ st.s = FieldSubject
                 /\ st.p = SCHEMA_url
                 /\ st.o.k = "iri"
                 /\ st.o.v \in UrlCandidates(raw)
                 /\ StartsWith(st.o.v, "http://") \/ StartsWith(st.o.v, "https://")
                 /\ FindAny(st.o.v, Space, 1) = 0
           /\ (UrlCandidates(raw) = {} => fOut.g = {})
           /\ (raw = "not a url" => fOut.g = {})

C6_Witness ==
    FieldDone /\ fProp = SCHEMA_url /\ fKind = "literal" /\ fRaw = "not a url" /\ fOut.g = {}

C7_Raw == "see http://example.com/a b and more"

\* C7 as stated: the schema:url field with raw value
\* "see http://example.com/a b and more" yields exactly one statement, with
\* object http://example.com/a%20b.
C7_ObjectKeepsSpace ==
    (FieldDone /\ fProp = SCHEMA_url /\ fRaw = C7_Raw) =>
        fOut.g = {Triple(FieldSubject, SCHEMA_url, URIRef("http://example.com/a%20b"))}

\* C7 amended: that field yields exactly one statement, with object
\* http://example.com/a: the embedded URL ends at the first whitespace, and
\* the text after it (" b and more") is ignored.
C7_ObjectEndsAtSpace ==
    (FieldDone /\ fProp = SCHEMA_url /\ fRaw = C7_Raw) =>
        fOut.g = {Triple(FieldSubject, SCHEMA_url, URIRef("http://example.com/a"))}

C7_Witness ==
    FieldDone /\ fProp = SCHEMA_url /\ fRaw = C7_Raw /\ Cardinality(fOut.g) = 1

(***************************************************************************)
(* Page Graph Assembler on one page: build_graph_for_title on a page       *)
(* context drawn from bounded sets, under Mappings.                        *)
(***************************************************************************)
MaxTmpl == 2

T_character ==
    [name |-> "Infobox_Character\n",
     params |-> <<[name |-> " Race ", value |-> " [[Half-elven|Half-elf]] and [[Man]]\n"],
                  [name |-> "image", value |-> "File:Elrond.jpg"],
                  [name |-> "website", value |-> "[http://example.com/a b]"],
                  [name |-> "spouse", value |-> "[[Celebrian]]"]>>]
T_place ==
    [name |-> " infobox place",
     params |-> <<[name |-> "realm", value |-> "[[Gondor]], [[File:map.png]]"]>>]
\* a template whose name is no key of Mappings
T_unmapped ==
    [name |-> "Infobox-character", params |-> <<[name |-> "race", value |-> "Elf"]>>]
\* a mapped template whose rule "text" has no "property"
T_quote ==
    [name |-> "Quote", params |-> <<[name |-> "text", value |-> "Speak, friend"]>>]

TmplPool == {T_character, T_place, T_unmapped, T_quote}

RECURSIVE SeqsUpTo(_, _)
\* the sequences of at most n elements of S
SeqsUpTo(S, n) ==
    IF n = 0 THEN {<<>>}
    ELSE LET shorter == SeqsUpTo(S, n - 1)
         IN shorter \cup {Append(q, x) : q \in shorter, x \in S}

BTitles == {"Minas Tirith", "a/b"}
BLinkLists == {<<>>, <<"Rivendell", "Category:Elves", "Gil-galad">>}
BExtLists ==
    {<<>>,
     <<"https://en.wikipedia.org/wiki/Minas Tirith">>,
     <<"HTTP://En.Wikipedia.Org/wiki/Elrond#Bio">>,
     <<"http://example.com/a b?q=1 2">>,
     <<"not a url">>,
     <<"http://[bad/x">>,
     <<"//en.wikipedia.org/wiki/X">>,
     <<"https://en.wikipedia.org/wiki/Elrond", "not a url", "http://example.com/a b">>}

BPages ==
    [title : BTitles, cached : {TRUE}, links : BLinkLists, externallinks : BExtLists,
     templates : SeqsUpTo(TmplPool, MaxTmpl), include : BOOLEAN]
    \cup [title : BTitles, cached : {FALSE}, links : {<<>>}, externallinks : {<<>>},
          templates : {<<>>}, include : BOOLEAN]

\* the cache directory as the page context describes it
PageCache(page) ==
    IF page.cached
    THEN (cached_path_for_title(page.title) :>
            [links |-> page.links, externallinks |-> page.externallinks,
             templates |-> page.templates])
    ELSE <<>>

InitBuild ==
    /\ mode = "build"
    /\ bPage \in BPages
    /\ bOut = NotRun
    /\ FieldIdle
    /\ DriverIdle
    /\ CallIdle
    /\ WorkersIdle
    /\ PipeIdle

\* g = build_graph_for_title(title, mappings, include_infobox)
Build ==
    /\ mode = "build"
    /\ ~bOut.ran
    /\ \E res \in {build_graph_for_title(bPage.title, PageCache(bPage), Mappings,
                                         bPage.include)} :
          bOut' = [ran |-> TRUE, status |-> res.status, g |-> res.g]
    /\ UNCHANGED <<mode, bPage>>
    /\ UNCHANGED fieldVars
    /\ UNCHANGED driverVars
    /\ UNCHANGED callVars
    /\ UNCHANGED workerVars
    /\ UNCHANGED pipeVars

NextBuild == Build
SpecBuild == InitBuild /\ [][NextBuild]_vars

BuildDone == mode = "build" /\ bOut.ran
BuildOk == BuildDone /\ bOut.status = "ok"

(***************************************************************************)
(* Claims about build, checked under SpecBuild                             *)
(***************************************************************************)
\* the identifiers of the page: the trimmed title with blanks as underscores,
\* percent-escaped
C9_Segment == ("Minas Tirith" :> "Minas_Tirith") @@ ("a/b" :> "a%2Fb")
C9_Doc == "http://localhost:5000/page/" \o C9_Segment[bPage.title]
C9_Entity == "http://localhost:5000/resource/" \o C9_Segment[bPage.title]
C9_Source == "https://tolkiengateway.net/wiki/" \o C9_Segment[bPage.title]
C9_Core ==
    {Triple(C9_Doc, "http://schema.org/about", URIRef(C9_Entity)),
     Triple(C9_Doc, "http://schema.org/url", URIRef(C9_Source)),
     Triple(C9_Entity, "http://schema.org/url", URIRef(C9_Source)),
     Triple(C9_Doc, RDFS_label, LiteralEn(bPage.title)),
     Triple(C9_Entity, RDFS_label, LiteralEn(bPage.title))}

\* C9: the output of build contains the unconditional core statements
\* (document isAbout entity, the source URL on both identifiers, the verbatim
\* title as English label on both), whatever the links, the templates and
\* include_infobox are.
C9_CoreAlwaysPresent == BuildOk => C9_Core \subseteq bOut.g

C9_Witness ==
    /\ BuildOk
    /\ bPage.title = "Minas Tirith"
    /\ bPage.include
    /\ bPage.templates /= <<>>
    /\ bPage.externallinks /= <<>>
    /\ Cardinality(bOut.g) > Cardinality(C9_Core)

\* the mapped invocations of the page and what each yields
C1_Mapped == find_mapped_templates(bPage.templates, Mappings)
C1_Failing == {i \in DOMAIN C1_Mapped : apply_infobox(C9_Entity, C1_Mapped[i], Mappings).raised}
C1_Others ==
    UNION {apply_infobox(C9_Entity, C1_Mapped[i], Mappings).g : i \in DOMAIN C1_Mapped \ C1_Failing}
C1_Links ==
    {Triple(C9_Entity, SCHEMA_relatedTo, URIRef(resource_uri(t))) :
        t \in Range(extract_links(bPage.links))}
C1_Externals ==
    {external_triple(C9_Doc, C9_Entity, u) : u \in Range(bPage.externallinks)}

\* C1: with include_infobox set, when applying the field rules to one matched
\* invocation raises, build still returns a statement set holding the core
\* statements, the link statements and the statements of every other matched
\* invocation of the page.
C1_InvocationFailureContained ==
    (BuildDone /\ bPage.cached /\ bPage.include /\ C1_Failing /= {}) =>
        /\ bOut.status = "ok"
        /\ C9_Core \cup C1_Links \cup C1_Externals \cup C1_Others \subseteq bOut.g

\* the statement C8 gives for the external link u
C8_Statement(u) ==
    LET escaped == safe_iri(u)
    IN IF escaped /= None /\ Contains(Lower(u), "wikipedia.org/wiki/")
       THEN Triple(C9_Entity, OWL_sameAs, URIRef(escaped))
       ELSE IF escaped /= None
       THEN Triple(C9_Doc, "http://schema.org/url", URIRef(escaped))
       ELSE Triple(C9_Doc, "http://schema.org/url", Literal(u))

\* the statements of the output that come from external links: the
\* equivalentTo statements and the document's web addresses other than the
\* source URL
C8_ExternalPart ==
    {st \in bOut.g :
        \/ st.p = OWL_sameAs
        \/ st.s = C9_Doc /\ st.p = "http://schema.org/url" /\ st.o /= URIRef(C9_Source)}

\* C8: for every external link of the page build emits exactly one statement
\* and never drops the link: equivalentTo from the entity to the escaped IRI
\* when escaping succeeds and the link contains the cross-reference path
\* segment (compared in lower case); otherwise the document's web address,
\* with the escaped IRI when escaping succeeds and the raw string as plain
\* literal when it does not.
C8_OneStatementPerExternalLink ==
    BuildOk =>
        /\ C8_ExternalPart = {C8_Statement(u) : u \in Range(bPage.externallinks)}
        /\ \A st \in C8_ExternalPart :
              st.o.k = "iri" => /\ StartsWith(st.o.v, "http")
                                /\ FindAny(st.o.v, Space, 1) = 0

C8_Witness ==
    /\ BuildOk
    /\ Len(bPage.externallinks) = 3
    /\ \E st \in bOut.g : st.p = OWL_sameAs
    /\ \E st \in bOut.g : st.s = C9_Doc /\ st.o = Literal("not a url")
    /\ \E st \in bOut.g : st.s = C9_Doc /\ st.o = URIRef("http://example.com/a%20b")

\* C10: a page without internal and external links whose templates all have
\* unmapped names produces, with include_infobox set, the core statements
\* and nothing else.
C10_UnmappedTemplatesIgnored ==
    (/\ BuildOk
     /\ bPage.include
     /\ bPage.links = <<>>
     /\ bPage.externallinks = <<>>
     /\ \A i \in DOMAIN bPage.templates : bPage.templates[i] = T_unmapped) =>
        bOut.g = C9_Core

C10_Witness ==
    /\ BuildOk
    /\ bPage.include
    /\ bPage.links = <<>>
    /\ bPage.externallinks = <<>>
    /\ bPage.templates = <<T_unmapped, T_unmapped>>
    /\ Cardinality(bOut.g) = 5

(***************************************************************************)
(* Batch driver: build_kg_chunked (build_kg_chunked.py:19-69) over a fixed *)
(* cache directory.                                                        *)
(***************************************************************************)
MaxTitles == 3
ProgressEvery == 50
TTL_OUT_DIR == "data/ttl"
out_prefix == "tolkien"

TitlePool == {"Elrond", "Minas Tirith", "Quotes", "Lost"}
ChunkSizes == {1, 2}
PageLimits == {NoLimit, Limit(1), Limit(2)}

\* the cache directory of the run: "Lost" has no cached source, and the
\* page "Quotes" invokes the template whose rule has no "property"
FileSystem ==
    (cached_path_for_title("Elrond") :>
        [links |-> <<"Rivendell", "Category:Elves">>,
         externallinks |-> <<"https://en.wikipedia.org/wiki/Elrond", "not a url">>,
         templates |-> <<T_character>>])
    @@ (cached_path_for_title("Minas Tirith") :>
        [links |-> <<"Gondor">>, externallinks |-> <<>>, templates |-> <<T_place, T_unmapped>>])
    @@ (cached_path_for_title("Quotes") :>
        [links |-> <<>>, externallinks |-> <<>>, templates |-> <<T_quote>>])

DecDigits == <<"0", "1", "2", "3", "4", "5", "6", "7", "8", "9">>
RECURSIVE ToDec(_)
\* str(n) for n >= 0
ToDec(n) == IF n < 10 THEN DecDigits[n + 1] ELSE ToDec(n \div 10) \o DecDigits[(n % 10) + 1]
RECURSIVE ZeroPad(_, _)
\* format(n, "0{w}d") once n is in decimal
ZeroPad(str, w) == IF Len(str) >= w THEN str ELSE ZeroPad("0" \o str, w)

\* os.path.join(a, b) on POSIX
path_join(a, b) ==
    IF StartsWith(b, "/") THEN b
    ELSE IF a = "" \/ At(a, Len(a)) = "/" THEN a \o b
    ELSE a \o "/" \o b

\* build_kg_chunked.py:40-41
out_path(prt) == path_join(TTL_OUT_DIR, out_prefix \o "_part" \o ZeroPad(ToDec(prt), 4) \o ".ttl")

\* flush that does not advance the part number
flush_KeepsPart(st) ==
    IF Cardinality(st.chunk) = 0 THEN st
    ELSE [chunk |-> {},
          part |-> st.part,
          produced |-> Append(st.produced, out_path(st.part)),
          written |-> (out_path(st.part) :> st.chunk) @@ st.written,
          log |-> Append(st.log, [kind |-> "Wrote", path |-> out_path(st.part),
                                  triples |-> Cardinality(st.chunk)])]

\* the nested function flush (build_kg_chunked.py:36-47) as a state
\* transformer over the variables it touches
flush(st) ==
    IF Cardinality(st.chunk) = 0 THEN st
    ELSE [chunk |-> {},
          part |-> st.part + 1,
          produced |-> Append(st.produced, out_path(st.part)),
          written |-> (out_path(st.part) :> st.chunk) @@ st.written,
          log |-> Append(st.log, [kind |-> "Wrote", path |-> out_path(st.part),
                                  triples |-> Cardinality(st.chunk)])]

\* the limit test with > for >=
LimitReached_Late == ~max_pages.none /\ processed > max_pages.n

\* build_kg_chunked.py:50
LimitReached == ~max_pages.none /\ processed >= max_pages.n

\* build_graph_for_title over the cache directory, tabulated per title and
\* include_infobox
Builds ==
    [t \in TitlePool |->
        [inc \in BOOLEAN |-> build_graph_for_title(t, FileSystem, Mappings, inc)]]

\* build_kg_chunked.py:53 for the title the loop is at
BuildOf(title) == Builds[title][include]

Init ==
    /\ mode = "driver"
    /\ titles \in SeqsUpTo(TitlePool, MaxTitles)
    /\ chunk_size \in ChunkSizes
    /\ max_pages \in PageLimits
    /\ include \in BOOLEAN
    /\ idx = 0
    /\ processed = 0
    /\ part = 1
    /\ chunk = {}
    /\ produced = <<>>
    /\ written = <<>>
    /\ log = <<>>
    /\ pc = "loop"
    /\ FieldIdle
    /\ BuildIdle
    /\ CallIdle
    /\ WorkersIdle
    /\ PipeIdle

\* one iteration whose build returns (build_kg_chunked.py:53-62)
TitleBuilt ==
    /\ mode = "driver" /\ pc = "loop"
    /\ idx < Len(titles)
    /\ ~LimitReached
    /\ \E res \in {BuildOf(titles[idx + 1])} :
       \E n \in {processed + 1} :
       \E progress \in {IF n % ProgressEvery = 0
                        THEN Append(log, [kind |-> "Processed", pages |-> n])
                        ELSE log} :
       \E merged \in {[chunk |-> chunk \cup res.g, part |-> part, produced |-> produced,
                       written |-> written, log |-> progress]} :
       \E after \in {IF n % chunk_size = 0 THEN flush(merged) ELSE merged} :
          /\ res.status = "ok"
          /\ processed' = n
          /\ chunk' = after.chunk
          /\ part' = after.part
          /\ produced' = after.produced
          /\ written' = after.written
          /\ log' = after.log
    /\ idx' = idx + 1
    /\ UNCHANGED <<mode, titles, chunk_size, max_pages, include, pc>>
    /\ UNCHANGED fieldVars
    /\ UNCHANGED buildVars
    /\ UNCHANGED callVars
    /\ UNCHANGED workerVars
    /\ UNCHANGED pipeVars

\* one iteration whose build raises, the statements added before the raise
\* being merged into the chunk
TitleFails_KeepsPartial ==
    /\ mode = "driver" /\ pc = "loop"
    /\ idx < Len(titles)
    /\ ~LimitReached
    /\ \E res \in {BuildOf(titles[idx + 1])} :
          /\ res.status /= "ok"
          /\ log' = Append(log, [kind |-> "WARN", title |-> titles[idx + 1], e |-> res.status])
          /\ chunk' = chunk \cup (IF res.status = "KeyError"
                                  THEN add_core_triples(titles[idx + 1]) ELSE {})
    /\ idx' = idx + 1
    /\ UNCHANGED <<mode, titles, chunk_size, max_pages, include, processed, part,
                   produced, written, pc>>
    /\ UNCHANGED fieldVars
    /\ UNCHANGED buildVars
    /\ UNCHANGED callVars
    /\ UNCHANGED workerVars
    /\ UNCHANGED pipeVars

\* one iteration whose build raises, the loop stopping there
TitleFails_Aborts ==
    /\ mode = "driver" /\ pc = "loop"
    /\ idx < Len(titles)
    /\ ~LimitReached
    /\ \E res \in {BuildOf(titles[idx + 1])} :
          /\ res.status /= "ok"
          /\ log' = Append(log, [kind |-> "WARN", title |-> titles[idx + 1], e |-> res.status])
    /\ idx' = idx + 1
    /\ pc' = "done"
    /\ UNCHANGED <<mode, titles, chunk_size, max_pages, include, processed, part, chunk,
                   produced, written>>
    /\ UNCHANGED fieldVars
    /\ UNCHANGED buildVars
    /\ UNCHANGED callVars
    /\ UNCHANGED workerVars
    /\ UNCHANGED pipeVars

\* one iteration whose build raises (build_kg_chunked.py:53, 64-65)
TitleFails ==
    /\ mode = "driver" /\ pc = "loop"
    /\ idx < Len(titles)
    /\ ~LimitReached
    /\ \E res \in {BuildOf(titles[idx + 1])} :
          /\ res.status /= "ok"
          /\ log' = Append(log, [kind |-> "WARN", title |-> titles[idx + 1], e |-> res.status])
    /\ idx' = idx + 1
    /\ UNCHANGED <<mode, titles, chunk_size, max_pages, include, processed, part, chunk,
                   produced, written, pc>>
    /\ UNCHANGED fieldVars
    /\ UNCHANGED buildVars
    /\ UNCHANGED callVars
    /\ UNCHANGED workerVars
    /\ UNCHANGED pipeVars

\* the break of build_kg_chunked.py:50-51
LoopBreak ==
    /\ mode = "driver" /\ pc = "loop"
    /\ idx < Len(titles)
    /\ LimitReached
    /\ pc' = "flush"
    /\ UNCHANGED <<mode, titles, chunk_size, max_pages, include, idx, processed, part, chunk,
                   produced, written, log>>
    /\ UNCHANGED fieldVars
    /\ UNCHANGED buildVars
    /\ UNCHANGED callVars
    /\ UNCHANGED workerVars
    /\ UNCHANGED pipeVars

\* the for loop runs out of titles
LoopExhausted ==
    /\ mode = "driver" /\ pc = "loop"
    /\ idx = Len(titles)
    /\ pc' = "flush"
    /\ UNCHANGED <<mode, titles, chunk_size, max_pages, include, idx, processed, part, chunk,
                   produced, written, log>>
    /\ UNCHANGED fieldVars
    /\ UNCHANGED buildVars
    /\ UNCHANGED callVars
    /\ UNCHANGED workerVars
    /\ UNCHANGED pipeVars

\* the end of the run without the final flush
Finish_NoFlush ==
    /\ mode = "driver" /\ pc = "flush"
    /\ log' = Append(log, [kind |-> "Done", pages |-> processed, files |-> Len(produced)])
    /\ pc' = "done"
    /\ UNCHANGED <<mode, titles, chunk_size, max_pages, include, idx, processed, part, chunk,
                   produced, written>>
    /\ UNCHANGED fieldVars
    /\ UNCHANGED buildVars
    /\ UNCHANGED callVars
    /\ UNCHANGED workerVars
    /\ UNCHANGED pipeVars

\* build_kg_chunked.py:67-69
Finish ==
    /\ mode = "driver" /\ pc = "flush"
    /\ \E after \in {flush([chunk |-> chunk, part |-> part, produced |-> produced,
                            written |-> written, log |-> log])} :
          /\ chunk' = after.chunk
          /\ part' = after.part
          /\ produced' = after.produced
          /\ written' = after.written
          /\ log' = Append(after.log, [kind |-> "Done", pages |-> processed,
                                       files |-> Len(after.produced)])
    /\ pc' = "done"
    /\ UNCHANGED <<mode, titles, chunk_size, max_pages, include, idx, processed>>
    /\ UNCHANGED fieldVars
    /\ UNCHANGED buildVars
    /\ UNCHANGED callVars
    /\ UNCHANGED workerVars
    /\ UNCHANGED pipeVars

Next == TitleBuilt \/ TitleFails \/ LoopBreak \/ LoopExhausted \/ Finish
Spec == Init /\ [][Next]_vars

(***************************************************************************)
(* Claims about the batch driver, checked under Spec                       *)
(***************************************************************************)
Returned == mode = "driver" /\ pc = "done"

\* the outcome of the build of each title the loop has consumed
Outcomes == [i \in 1..idx |-> BuildOf(titles[i])]
WarnLines == {i \in DOMAIN log : log[i].kind = "WARN"}

\* C2: a failure while building a title, a missing cached source included,
\* does not abort the run: when the driver returns, every title has been
\* attempted unless max_pages titles had succeeded before it, and the final
\* flush has left no pending statement: all statements of the titles that were
\* built are in the files written.
C2_RunSurvivesTitleFailure ==
    Returned =>
        \E out \in {Outcomes} :
        \E built \in {{i \in 1..idx : out[i].status = "ok"}} :
            /\ \/ idx = Len(titles)
               \/ ~max_pages.none /\ Cardinality(built) >= max_pages.n
            /\ processed = Cardinality(built)
            /\ Cardinality(WarnLines) = idx - Cardinality(built)
            /\ chunk = {}
            /\ log[Len(log)].kind = "Done"
            /\ UNION {written[f] : f \in DOMAIN written} = UNION {out[i].g : i \in built}
            /\ DOMAIN written = Range(produced)

\* a run where a missing source and a raising template both precede a title
\* that is then built and written by the final flush
C2_Witness ==
    /\ Returned
    /\ titles = <<"Lost", "Quotes", "Elrond">>
    /\ include
    /\ chunk_size = 2
    /\ Cardinality(WarnLines) = 2
    /\ processed = 1
    /\ Len(produced) = 1

\* C3: per-title failures are counted and the number of failed titles is
\* reported at the end of the run.
C3_FailureCountReported ==
    Returned =>
        \E i \in DOMAIN log :
            /\ log[i].kind = "Done"
            /\ "failed" \in DOMAIN log[i]
            /\ log[i].failed = Cardinality(WarnLines)

\* the titles consumed so far whose build returned, and the rank of one of
\* them among these
BuiltSoFar == {i \in 1..idx : Outcomes[i].status = "ok"}
RankOf(i) == Cardinality({j \in BuiltSoFar : j <= i})
\* the number of the chunk that is open when the page of rank k is merged:
\* a chunk is closed after every chunk_size pages
ChunkOf(k) == ((k - 1) \div chunk_size) + 1

\* C25: provided every flush succeeds, every statement of every successfully
\* built page is, when the run ends, in the file of the chunk that was open
\* when the page was processed; until that file is written the statements
\* are in the accumulating chunk, so none is lost between flushes or at the
\* end of the title list.
C25_StatementsReachTheirChunkFile ==
    mode = "driver" =>
        /\ \A i \in BuiltSoFar :
              \E k \in {ChunkOf(RankOf(i))} :
                 IF k <= Len(produced)
                 THEN Outcomes[i].g \subseteq written[produced[k]]
                 ELSE k = part /\ Outcomes[i].g \subseteq chunk
        /\ pc = "done" =>
              \A i \in BuiltSoFar : ChunkOf(RankOf(i)) <= Len(produced)

\* three pages built with chunk_size 2: the third is written by the final
\* flush
C25_Witness ==
    /\ Returned
    /\ titles = <<"Elrond", "Minas Tirith", "Elrond">>
    /\ include
    /\ chunk_size = 2
    /\ max_pages.none
    /\ Len(produced) = 2
    /\ written[produced[1]] = Builds["Elrond"][TRUE].g \cup Builds["Minas Tirith"][TRUE].g
    /\ written[produced[2]] = Builds["Elrond"][TRUE].g

\* the produced files are numbered 1, 2, 3, ... in the order they were
\* written, none is empty, and file n holds the statements of the built pages
\* of ranks (n-1)*chunk_size+1 .. n*chunk_size, no others
C26_FilesInOrder ==
    mode = "driver" =>
        /\ part = Len(produced) + 1
        /\ DOMAIN written = Range(produced)
        /\ \A n \in DOMAIN produced :
              /\ produced[n] = out_path(n)
              /\ \A m \in DOMAIN produced : produced[m] = produced[n] => m = n
              /\ written[produced[n]] /= {}
              /\ \E pages \in {{i \in BuiltSoFar : ChunkOf(RankOf(i)) = n}} :
                    /\ Cardinality(pages) >= 1
                    /\ Cardinality(pages) <= chunk_size
                    /\ written[produced[n]] = UNION {Outcomes[i].g : i \in pages}

C27_LimitBoundsBuiltPages ==
    /\ [](mode = "driver" =>
             /\ processed = Cardinality(BuiltSoFar)
             /\ ~max_pages.none => processed <= max_pages.n)
    /\ [][(mode = "driver" /\ ~max_pages.none /\ Cardinality(BuiltSoFar) >= max_pages.n)
             => idx' = idx]_vars

\* a failed title, a built page that reaches the limit, a title left unbuilt
C27_Witness ==
    /\ Returned
    /\ titles = <<"Lost", "Elrond", "Minas Tirith">>
    /\ max_pages = Limit(1)
    /\ idx = 2
    /\ processed = 1
    /\ Cardinality(WarnLines) = 1

\* the titles consumed so far whose build raised
FailedSoFar == {i \in 1..idx : Outcomes[i].status /= "ok"}
\* every statement in the accumulating chunk and in the files
Accumulated == chunk \cup UNION {written[f] : f \in DOMAIN written}

\* C28: when building a title fails, the accumulating chunk, the
\* processed-page counter, the part number and the list of produced files are
\* all left unchanged: no partial statement of the failed page (the core
\* statements build adds first) reaches the chunk or any output file.
C28_FailureLeavesRunUntouched ==
    /\ [][(mode = "driver" /\ idx' = idx + 1 /\ BuildOf(titles[idx + 1]).status /= "ok")
             => UNCHANGED <<chunk, processed, part, produced, written>>]_vars
    /\ [](mode = "driver" =>
             /\ \A i \in FailedSoFar : add_core_triples(titles[i]) \cap Accumulated = {}
             /\ Accumulated = UNION {Outcomes[i].g : i \in BuiltSoFar})

\* a page is pending in the chunk when the build of the next title raises
\* in the middle of the field mapping
C28_Witness ==
    /\ mode = "driver" /\ pc = "loop"
    /\ include
    /\ chunk_size = 2
    /\ idx = 2
    /\ titles[1] = "Elrond" /\ titles[2] = "Quotes"
    /\ Outcomes[2].status = "KeyError"
    /\ chunk = Outcomes[1].g
    /\ processed = 1 /\ part = 1 /\ produced = <<>>

(***************************************************************************)
(* The functions of the library called on their own: the identifier        *)
(* builder, the value classifier and the URL normalizer, each on string    *)
(* arguments drawn from a bounded pool.                                    *)
(***************************************************************************)
MaxPieces == 2

CTitles ==
    {"a/b", "a%2Fb", "a%2fb", "Minas Tirith", "Minas_Tirith", " Minas Tirith ", "Elrond",
     "Gandalf (disambiguation)", "a b", "a%20b", "A/B", "50%", "~x-y.z", "", "a\tb"}

\* a value is a sequence of pieces: a cross-reference token or plain text
LinkPiece(target, display) == [link |-> TRUE, target |-> target, display |-> display]
TextPiece(text) == [link |-> FALSE, target |-> "", display |-> text]
Pieces ==
    {LinkPiece("Gondor", ""), LinkPiece("Elf", "elves"), LinkPiece("Man", ""),
     LinkPiece("Elf#Kin", "kin"), TextPiece(" and "), TextPiece(", ")}

\* the wikitext of a piece
RenderPiece(pc0) ==
    IF ~pc0.link THEN pc0.display
    ELSE IF pc0.display = "" THEN "[[" \o pc0.target \o "]]"
    ELSE "[[" \o pc0.target \o "|" \o pc0.display \o "]]"

RECURSIVE Render(_)
Render(ps) == IF ps = <<>> THEN "" ELSE RenderPiece(Head(ps)) \o Render(Tail(ps))

CValues ==
    {Render(ps) : ps \in SeqsUpTo(Pieces, MaxPieces)}
    \cup {"Elf, Human", "Grey  Havens", " Grey Havens ", "Grey\tHavens", "Elf", "Elf ()",
          "( )", "[[Gondor|]]", "[[Gondor", "Gondor]]", "[Gondor]", "[[A|B|C]]",
          "[[ Gondor ]]", "a; b, c", "<b>bold</b>", "a < b", "<ref>x", " ", "x<br/>y",
          "[[Gondor|the [realm]]", "{{tmpl|x}} y", "<ref name=a/>", "a\n\n\nb",
          "[[Half-elven|Half-elf]] and [[Man]]", "Third Age 3019", "a (b) c", "Elf\r\f(c.)",
          "a;\nb ,c", ",a,,b;", " ; ,", "x, [[Gondor]]; y", "a,b\n\nc;;d e", "a\n , \n b",
          "<ref>[[Gondor]]</ref> Elf", "[[Elf]]<ref name=a>see [[Man]]</ref>"}

UrlSchemes == {"http", "https", "ftp", "HTTP"}
UrlAuthorities == {"a.org", "u@a.org:80", "[::1]"}
UrlPaths == {"", "/", "/w/Elf", "/a+b;c=d", "/a%20b"}
UrlQueries == {"", "?q=a+b"}
UrlFragments == {"", "#Bio", "#a!b"}
\* absolute URLs, valid by construction
ValidUrls ==
    {sc \o "://" \o au \o pa \o qu \o fr :
        sc \in UrlSchemes, au \in UrlAuthorities, pa \in UrlPaths,
        qu \in UrlQueries, fr \in UrlFragments}
BadUrls ==
    {"http://[bad/x", "not a url", "", " ", "http://", "http:///x", "www.example.com/a b",
     "example.com", "http://exa mple.com/<b>", "http://a.b/c\td", "//host/x", "http:x",
     "<ref>http://a.b</ref>", "http://a.b/<ref>x</ref>c", "http://[::1", "http://]x[/",
     "http://[v1.x]/", "http://[::g]/", " https://a.b/\"c\" ", "HTTPS://[bad", "a.b/[x"}
\* URLs that carry percent signs, and URLs with blanks in the authority
EscapedUrls ==
    {"http://a.b/%zz%?%25#%2f", "a.org/a%20b c", "https://a.b/%25%2525", "http://a%20.b/%"}
BlankAuthorityUrls ==
    {"http://f\t#", "http://a.org ?", "http://\t?", "http://a\t\n b/", "http://a b/c",
     "https://a.org /x?"}
\* URLs whose host is a bracketed address: with an IPv4-style suffix, with a
\* zone id, and malformed ones
BracketedUrls ==
    {"http://[::ffff:1.2.3.4]/x", "http://[1:2:3:4:5:6:1.2.3.4]/", "http://[fe80::1%eth0]/a b",
     "http://[::1.2.3]/", "http://[::1.2.3.256]/", "http://[::1%]/", "http://[1.2.3.4]/",
     "http://[::1]/x", "http://[1:2:3:4:5:6:7:8]/"}
CUrls == ValidUrls \cup BadUrls \cup EscapedUrls \cup BlankAuthorityUrls \cup BracketedUrls

\* template invocations of a document: the name as written, the text of the
\* first parameter, the invocations nested in the parameter values
MaxNodes == 2
Leaf(name, arg) == [name |-> name, arg |-> arg, nested |-> <<>>]
Leaves ==
    {Leaf("Infobox character", "a"), Leaf("Infobox character", "b"),
     Leaf("Infobox_Character\n", ""), Leaf(" infobox place", ""), Leaf("Quote", ""),
     Leaf("QUOTE ", ""), Leaf("_quote", ""), Leaf("quote_", ""), Leaf("Infobox-character", ""),
     Leaf("lang", ""), Leaf("", "")}
DocNodes ==
    Leaves
    \cup {[name |-> "Infobox character", arg |-> "c",
           nested |-> <<Leaf("quote", "in"), Leaf("lang", "")>>],
          [name |-> "lang", arg |-> "",
           nested |-> <<[name |-> "lang", arg |-> "",
                         nested |-> <<Leaf(" infobox place", "deep")>>]>>]}
CDocs == SeqsUpTo(DocNodes, MaxNodes)

\* template names and mapping keys as written
CNames ==
    {"Infobox character", "Infobox_Character", " infobox_character\n", "INFOBOX CHARACTER",
     "_Infobox character", "Infobox character_", "infobox character _", "Quote", "_quote",
     "quote_", "\tquote", "a__b", "a _b", "A  B", "_", "", " "}

InitCall ==
    /\ mode = "call"
    /\ \/ cFn = "resource_uri" /\ cArgs \in {<<a, b>> : a \in CTitles, b \in CTitles}
       \/ cFn = "uri_escape_title" /\ cArgs \in {<<a>> : a \in CTitles}
       \/ cFn \in {"strip_markup", "parse_value"} /\ cArgs \in {<<v>> : v \in CValues}
       \/ cFn \in {"normalize_url", "safe_iri"} /\ cArgs \in {<<u>> : u \in CUrls}
       \/ cFn = "find_mapped_templates" /\ cArgs \in {<<d>> : d \in CDocs}
       \/ cFn = "normalize_template_name" /\ cArgs \in {<<n>> : n \in CNames}
    /\ cOut = [ran |-> FALSE]
    /\ FieldIdle
    /\ BuildIdle
    /\ DriverIdle
    /\ WorkersIdle
    /\ PipeIdle

\* the frame of a call: only its result is new
CallFrame ==
    /\ UNCHANGED <<mode, cFn>>
    /\ UNCHANGED fieldVars
    /\ UNCHANGED buildVars
    /\ UNCHANGED driverVars
    /\ UNCHANGED workerVars
    /\ UNCHANGED pipeVars

\* resource_uri on each of two titles
Call_resource_uri ==
    /\ mode = "call" /\ cFn = "resource_uri" /\ ~cOut.ran
    /\ cOut' = [ran |-> TRUE, value |-> <<resource_uri(cArgs[1]), resource_uri(cArgs[2])>>]
    /\ UNCHANGED cArgs
    /\ CallFrame

\* uri_escape_title on a title
Call_uri_escape_title ==
    /\ mode = "call" /\ cFn = "uri_escape_title" /\ ~cOut.ran
    /\ cOut' = [ran |-> TRUE, value |-> uri_escape_title(cArgs[1])]
    /\ UNCHANGED cArgs
    /\ CallFrame

\* uri_escape_title on what the first call returned
Renormalize ==
    /\ mode = "call" /\ cFn = "uri_escape_title" /\ cOut.ran /\ Len(cArgs) = 1
    /\ cArgs' = Append(cArgs, cOut.value)
    /\ cOut' = [ran |-> TRUE, value |-> uri_escape_title(cOut.value)]
    /\ CallFrame

Call_strip_markup ==
    /\ mode = "call" /\ cFn = "strip_markup" /\ ~cOut.ran
    /\ cOut' = [ran |-> TRUE, value |-> strip_markup(cArgs[1])]
    /\ UNCHANGED cArgs
    /\ CallFrame

Call_parse_value ==
    /\ mode = "call" /\ cFn = "parse_value" /\ ~cOut.ran
    /\ cOut' = [ran |-> TRUE, value |-> parse_value(cArgs[1])]
    /\ UNCHANGED cArgs
    /\ CallFrame

Call_normalize_url ==
    /\ mode = "call" /\ cFn = "normalize_url" /\ ~cOut.ran
    /\ cOut' = [ran |-> TRUE, value |-> normalize_url(cArgs[1])]
    /\ UNCHANGED cArgs
    /\ CallFrame

\* normalize_url on what the first call returned, when that is a URL
Renormalize_url ==
    /\ mode = "call" /\ cFn = "normalize_url" /\ cOut.ran /\ Len(cArgs) = 1
    /\ cOut.value /= None
    /\ cArgs' = Append(cArgs, cOut.value)
    /\ cOut' = [ran |-> TRUE, value |-> normalize_url(cOut.value)]
    /\ CallFrame

Call_safe_iri ==
    /\ mode = "call" /\ cFn = "safe_iri" /\ ~cOut.ran
    /\ cOut' = [ran |-> TRUE, value |-> safe_iri(cArgs[1])]
    /\ UNCHANGED cArgs
    /\ CallFrame

\* find_mapped_templates on the wikitext of a document, under Mappings
Call_find_mapped_templates ==
    /\ mode = "call" /\ cFn = "find_mapped_templates" /\ ~cOut.ran
    /\ cOut' = [ran |-> TRUE,
                value |-> find_mapped_templates(filter_templates(cArgs[1]), Mappings)]
    /\ UNCHANGED cArgs
    /\ CallFrame

\* normalize_template_name on a name
Call_normalize_template_name ==
    /\ mode = "call" /\ cFn = "normalize_template_name" /\ ~cOut.ran
    /\ cOut' = [ran |-> TRUE, value |-> normalize_template_name(cArgs[1])]
    /\ UNCHANGED cArgs
    /\ CallFrame

\* normalize_template_name on what the first call returned
Renormalize_template_name ==
    /\ mode = "call" /\ cFn = "normalize_template_name" /\ cOut.ran /\ Len(cArgs) = 1
    /\ cArgs' = Append(cArgs, cOut.value)
    /\ cOut' = [ran |-> TRUE, value |-> normalize_template_name(cOut.value)]
    /\ CallFrame

NextCall ==
    \/ Call_resource_uri
    \/ Call_uri_escape_title
    \/ Renormalize
    \/ Call_strip_markup
    \/ Call_parse_value
    \/ Call_normalize_url
    \/ Renormalize_url
    \/ Call_safe_iri
    \/ Call_find_mapped_templates
    \/ Call_normalize_template_name
    \/ Renormalize_template_name
SpecCall == InitCall /\ [][NextCall]_vars

\* the call of function fn has returned
Called(fn) == mode = "call" /\ cFn = fn /\ cOut.ran

(***************************************************************************)
(* Claims about the identifier builder, checked under SpecCall             *)
(***************************************************************************)
\* the trimmed, space-to-underscore form of a title
Normal(t) == Replace(Strip(t), " ", "_")

\* the character whose code the two hex digits hi, lo write
HexValue(c) == Find("0123456789abcdef", LowerChar(c), 1) - 1
ChrOfHex(hi, lo) ==
    CHOOSE c \in DOMAIN OrdTable : OrdTable[c] = 16 * HexValue(hi) + HexValue(lo)

\* standard percent-decoding: every %XY with hex digits X, Y that code a
\* character of the alphabet is replaced by that character
RECURSIVE PercentDecodeFrom(_, _)
PercentDecodeFrom(s, i) ==
    IF i > Len(s) THEN ""
    ELSE IF /\ At(s, i) = "%"
            /\ At(s, i + 1) \in HexDigit
            /\ At(s, i + 2) \in HexDigit
            /\ \E c \in DOMAIN OrdTable :
                  OrdTable[c] = 16 * HexValue(At(s, i + 1)) + HexValue(At(s, i + 2))
         THEN ChrOfHex(At(s, i + 1), At(s, i + 2)) \o PercentDecodeFrom(s, i + 3)
         ELSE At(s, i) \o PercentDecodeFrom(s, i + 1)
PercentDecode(s) == PercentDecodeFrom(s, 1)

\* C13: entity_id is deterministic and injective on normalized titles: two
\* titles whose trimmed, space-to-underscore forms differ get different
\* identifiers, two equal titles get the same identifier, and
\* percent-decoding the escaped segment of an identifier gives back the
\* trimmed, underscore-joined title.
C13_EntityIdInjective ==
    Called("resource_uri") =>
        /\ (Normal(cArgs[1]) /= Normal(cArgs[2]) => cOut.value[1] /= cOut.value[2])
        /\ (cArgs[1] = cArgs[2] => cOut.value[1] = cOut.value[2])
        /\ \A k \in 1..2 :
              /\ StartsWith(cOut.value[k], RES)
              /\ PercentDecode(From(cOut.value[k], Len(RES) + 1)) = Normal(cArgs[k])

\* the titles "a/b" and "a%2Fb" have been given their identifiers
C13_Witness ==
    /\ Called("resource_uri")
    /\ cArgs = <<"a/b", "a%2Fb">>
    /\ cOut.value = <<RES \o "a%2Fb", RES \o "a%252Fb">>

\* C14 (as stated): applying the title normalization to its own output
\* returns that output unchanged, for every title.
C14_NormalizationIdempotent ==
    (Called("uri_escape_title") /\ Len(cArgs) = 2) => cOut.value = cArgs[2]

\* C14 (amended): applying the title normalization to its own output returns
\* the output unchanged exactly when the output contains no percent-escape;
\* an output that contains one is escaped again.
C14_IdempotentWithoutEscapes ==
    (Called("uri_escape_title") /\ Len(cArgs) = 2) =>
        (cOut.value = cArgs[2] <=> ~Contains(cArgs[2], "%"))

\* "a/b" was normalized to "a%2Fb", and that again to "a%252Fb"
C14_Witness ==
    /\ Called("uri_escape_title")
    /\ cArgs = <<"a/b", "a%2Fb">>
    /\ cOut.value = "a%252Fb"

(***************************************************************************)
(* Claims about the image rule of the field mapper, checked under          *)
(* SpecField                                                               *)
(***************************************************************************)
\* C15: for a rule of kind image on a predicate other than schema:url: when
\* the filename (the value without markup, trimmed) is non-empty, exactly
\* one statement is emitted, whose object is the file-description prefix
\* followed by "File:" and the escaped filename, a leading "File:" in any
\* letter case having been removed first (raw "Elrond.jpg" gives an object
\* ending in File:Elrond.jpg); when the filename is empty, nothing is
\* emitted.
C15_ImageFieldEmitsFilePage ==
    (FieldDone /\ fKind = "image" /\ fProp /= SCHEMA_url) =>
        \E f \in {Strip(strip_markup(fRaw))} :
            /\ f = "" => fOut.g = {}
            /\ f /= "" =>
                  \E name \in {IF Lower(Take(f, 5)) = "file:" THEN From(f, 6) ELSE f} :
                     fOut.g = {Triple(FieldSubject, fProp,
                                      URIRef(TG_WIKI_BASE \o "File:" \o quote(Normal(name), {})))}
            /\ fRaw = "Elrond.jpg" =>
                  \A st \in fOut.g :
                     From(st.o.v, Len(st.o.v) - Len("File:Elrond.jpg") + 1) = "File:Elrond.jpg"

\* the image rule was applied to a filename with a qualifier in mixed case
C15_Witness ==
    /\ FieldDone /\ fKind = "image" /\ fProp /= SCHEMA_url
    /\ fRaw = "fIlE:Elrond 1.jpg"
    /\ fOut.g = {Triple(FieldSubject, fProp, URIRef(TG_WIKI_BASE \o "File:Elrond_1.jpg"))}

(***************************************************************************)
(* Claims about the URL normalizer, checked under SpecCall                 *)
(***************************************************************************)
\* normalize_url has returned for a valid absolute URL with scheme sc and
\* authority au
NormalizedValid(sc, au) ==
    /\ Called("normalize_url")
    /\ cArgs[1] \in ValidUrls
    /\ StartsWith(cArgs[1], sc \o "://" \o au)
    /\ At(cArgs[1], Len(sc \o "://" \o au) + 1) \in {"", "/", "?", "#"}

\* out is an absolute reference with scheme sc and authority au that differs
\* from u by percent-escapes after the authority only
SameSchemeAndAuthority(u, out, sc, au) ==
    /\ out /= None
    /\ \E parts \in {urlsplit(out)} :
          parts.ok /\ parts.scheme = Lower(sc) /\ parts.netloc = au
    /\ StartsWith(out, sc \o "://" \o au)
    /\ PercentDecode(out) = PercentDecode(u)

\* C16 (as stated): for every valid absolute URL u, normalize(u) is not null
\* and re-parses as an absolute reference with the scheme and the authority
\* of u, only path, query and fragment being percent-escaped.
C16_AbsoluteUrlsKeepSchemeAndAuthority ==
    \A sc \in UrlSchemes, au \in UrlAuthorities :
        NormalizedValid(sc, au) => SameSchemeAndAuthority(cArgs[1], cOut.value, sc, au)

\* C16 (amended): that holds for every valid absolute URL that begins with
\* http:// or https:// in lower case; for a valid absolute URL with any
\* other scheme prefix (ftp://, HTTP://) normalize returns null.
C16_HttpUrlsKeepSchemeAndAuthority ==
    \A sc \in UrlSchemes, au \in UrlAuthorities :
        NormalizedValid(sc, au) =>
            IF sc \in {"http", "https"}
            THEN SameSchemeAndAuthority(cArgs[1], cOut.value, sc, au)
            ELSE cOut.value = None

\* a URL with user, port, and characters to escape in path, query and
\* fragment has been normalized
C16_Witness ==
    /\ NormalizedValid("https", "u@a.org:80")
    /\ cArgs[1] = "https://u@a.org:80/a+b;c=d?q=a+b#a!b"
    /\ cOut.value = "https://u@a.org:80/a%2Bb%3Bc%3Dd?q=a%2Bb#a%21b"

(***************************************************************************)
(* Claims about the value classifier, checked under SpecCall               *)
(***************************************************************************)
C17_Value == "[[Half-elven|Half-elf]] and [[Man]]"

\* C17 (as stated): classify("[[Half-elven|Half-elf]] and [[Man]]") returns
\* linked_titles = ["Half-elven", "Man"] and literal_parts = []: the bare
\* connective between the cross-references is not a literal part.
C17_ConnectiveDiscarded ==
    (Called("parse_value") /\ cArgs[1] = C17_Value) =>
        /\ cOut.value.linked_titles = <<"Half-elven", "Man">>
        /\ cOut.value.literal_parts = <<>>

\* C17 (amended): classify("[[Half-elven|Half-elf]] and [[Man]]") returns
\* linked_titles = ["Half-elven", "Man"] and literal_parts = ["and"]: the
\* text left between the cross-references is returned as a literal part.
C17_ConnectiveRetained ==
    (Called("parse_value") /\ cArgs[1] = C17_Value) =>
        /\ cOut.value.linked_titles = <<"Half-elven", "Man">>
        /\ cOut.value.literal_parts = <<"and">>

C17_Witness ==
    /\ Called("parse_value") /\ cArgs[1] = C17_Value
    /\ Len(cOut.value.linked_titles) = 2
    /\ Len(cOut.value.literal_parts) = 1

\* v has no tag, no bracket, no newline, semicolon or comma, and is not
\* empty after trimming
PlainValue(v) ==
    /\ FindAny(v, {"<", ">", "[", "]", "{", "}", "|", "\n", ";", ","}, 1) = 0
    /\ Strip(v) /= ""

\* s from index i on, every run of blanks, tabs, carriage returns and form
\* feeds replaced by one blank
RECURSIVE OneBlankFrom(_, _)
OneBlankFrom(s, i) ==
    IF i > Len(s) THEN ""
    ELSE IF At(s, i) \in {" ", "\t", "\r", "\f"}
         THEN " " \o OneBlankFrom(s, CharRunEnd(s, i, {" ", "\t", "\r", "\f"}) + 1)
         ELSE At(s, i) \o OneBlankFrom(s, i + 1)

\* C18 (as stated): for a value without markup and delimiters that is not
\* empty after trimming, classify returns no linked title and exactly one
\* literal part, the value with only its leading and trailing whitespace
\* removed.
C18_PlainValueIsOneTrimmedLiteral ==
    (Called("parse_value") /\ PlainValue(cArgs[1])) =>
        /\ cOut.value.linked_titles = <<>>
        /\ cOut.value.literal_parts = <<Strip(cArgs[1])>>

\* C18 (amended): for such a value that moreover holds no empty pair of
\* parentheses, classify returns no linked title and exactly one literal
\* part: the trimmed value with every inner run of blanks, tabs, carriage
\* returns and form feeds collapsed to a single blank.
C18_PlainValueIsOneCollapsedLiteral ==
    (/\ Called("parse_value")
     /\ PlainValue(cArgs[1])
     /\ \A i \in 1..Len(cArgs[1]) : EmptyParenEnd(cArgs[1], i) = 0) =>
        /\ cOut.value.linked_titles = <<>>
        /\ cOut.value.literal_parts = <<OneBlankFrom(Strip(cArgs[1]), 1)>>

\* a plain value with two blanks inside has been classified
C18_Witness ==
    /\ Called("parse_value") /\ cArgs[1] = "Grey  Havens"
    /\ cOut.value.literal_parts = <<"Grey Havens">>

\* the targets of the cross-reference tokens of a value, in order
RECURSIVE Targets(_)
Targets(ps) ==
    IF ps = <<>> THEN <<>>
    ELSE (IF Head(ps).link THEN <<Head(ps).target>> ELSE <<>>) \o Targets(Tail(ps))

\* C19: classify returns as linked titles, in order of occurrence, the
\* Target (the segment before the first "|") of every cross-reference token
\* [[Target]] or [[Target|Display]] of the value; no display text is
\* returned, neither as a linked title nor within a literal part
\* (classify("[[Gondor]]") gives (["Gondor"], [])).
C19_EveryTargetReturned ==
    \A ps \in SeqsUpTo(Pieces, MaxPieces) :
        (Called("parse_value") /\ cArgs[1] = Render(ps)) =>
            /\ cOut.value.linked_titles = Targets(ps)
            /\ \A k \in DOMAIN ps :
                  (ps[k].link /\ ps[k].display /= "") =>
                      /\ \A n \in DOMAIN cOut.value.linked_titles :
                            cOut.value.linked_titles[n] /= ps[k].display
                      /\ \A n \in DOMAIN cOut.value.literal_parts :
                            ~Contains(cOut.value.literal_parts[n], ps[k].display)
            /\ (cArgs[1] = "[[Gondor]]" => cOut.value.literal_parts = <<>>)

(***************************************************************************)
(* Totality of the classification and normalization functions, checked     *)
(* under SpecCall                                                          *)
(***************************************************************************)
\* bracket syntax that is no cross-reference token
MalformedBrackets == {"[[Gondor", "Gondor]]", "[Gondor]", "[[Gondor|]]"}

\* C20: strip_markup, parse_value, normalize_url and safe_iri return a value
\* for every input string: strip_markup a string, parse_value two lists of
\* strings, normalize_url and safe_iri null or an absolute reference; a URL
\* that urlsplit rejects yields null, and malformed bracket syntax is left
\* as literal text.
C20_LibraryFunctionsTotal ==
    /\ Called("strip_markup") => cOut.value \in STRING
    /\ Called("parse_value") =>
          /\ \A n \in DOMAIN cOut.value.linked_titles :
                cOut.value.linked_titles[n] \in STRING
          /\ \A n \in DOMAIN cOut.value.literal_parts :
                cOut.value.literal_parts[n] \in STRING
          /\ cArgs[1] \in MalformedBrackets =>
                /\ cOut.value.linked_titles = <<>>
                /\ cOut.value.literal_parts = <<cArgs[1]>>
    /\ (Called("normalize_url") \/ Called("safe_iri")) =>
          (cOut.value = None \/ Contains(cOut.value, "://"))
    /\ Called("normalize_url") =>
          (~urlsplit(Strip(strip_markup(cArgs[1]))).ok => cOut.value = None)
    /\ Called("safe_iri") =>
          (~urlsplit(Strip(cArgs[1])).ok => cOut.value = None)

\* safe_iri was given a URL with an unclosed bracket, which urlsplit rejects
C20_Witness ==
    /\ Called("safe_iri")
    /\ cArgs[1] = "http://[bad/x"
    /\ ~urlsplit(cArgs[1]).ok
    /\ cOut.value = None

(***************************************************************************)
(* Claims about the literal parts, checked under SpecCall                  *)
(***************************************************************************)
RECURSIVE Without(_, _)
\* s without the characters of cs
Without(s, cs) ==
    IF s = "" THEN ""
    ELSE (IF At(s, 1) \in cs THEN "" ELSE At(s, 1)) \o Without(From(s, 2), cs)

RECURSIVE Joined(_)
\* the parts one after the other
Joined(parts) == IF parts = <<>> THEN "" ELSE Head(parts) \o Joined(Tail(parts))

\* C23: every literal part returned by classify is non-empty, has no leading
\* or trailing whitespace, and contains no newline, semicolon or comma; the
\* parts keep the order of the text (for a value without markup the parts,
\* one after the other, are the text without its delimiters, blanks aside),
\* and mixed delimiters all split: "Elf, Human" gives ["Elf", "Human"] and
\* "a; b, c" gives ["a", "b", "c"].
C23_LiteralPartsAreCleanAndOrdered ==
    Called("parse_value") =>
        /\ \A n \in DOMAIN cOut.value.literal_parts :
              \E lit \in {cOut.value.literal_parts[n]} :
                 /\ lit /= ""
                 /\ At(lit, 1) \notin Space
                 /\ At(lit, Len(lit)) \notin Space
                 /\ FindAny(lit, {"\n", ";", ","}, 1) = 0
        /\ FindAny(cArgs[1], {"<", "[", "("}, 1) = 0 =>
              Without(Joined(cOut.value.literal_parts), Space)
                  = Without(cArgs[1], Space \cup {";", ","})
        /\ cArgs[1] = "Elf, Human" =>
              cOut.value = [linked_titles |-> <<>>, literal_parts |-> <<"Elf", "Human">>]
        /\ cArgs[1] = "a; b, c" =>
              cOut.value = [linked_titles |-> <<>>, literal_parts |-> <<"a", "b", "c">>]

\* a value with newline, semicolon and comma between its parts
C23_Witness ==
    /\ Called("parse_value")
    /\ cArgs[1] = "a,b\n\nc;;d e"
    /\ cOut.value.literal_parts = <<"a", "b", "c", "d e">>

\* C24: the linked titles returned by classify come only from
\* cross-reference tokens that remain after markup stripping: a token inside
\* a removed citation/reference block is not returned as a linked title
\* (linked titles and literal parts are computed from the same cleaned text).
C24_LinkedTitlesFromCleanedText ==
    Called("parse_value") =>
        cOut.value.linked_titles = extract_wikilinks(strip_markup(cArgs[1]))

(***************************************************************************)
(* Claims about repeated URL normalization, checked under SpecCall         *)
(***************************************************************************)
\* normalize_url was applied to u = cArgs[1], gave cArgs[2], and was applied
\* again to that
Renormalized == Called("normalize_url") /\ Len(cArgs) = 2

\* C22: URL normalization does not double-escape: for every input u for
\* which normalize(u) is non-null, normalize(normalize(u)) equals
\* normalize(u).  safe_iri passes the authority through as urlsplit gives it
\* (build_kg.py:94), so normalize("http://f\t#") is "http://f " with a blank
\* in it, and normalizing that gives "http://f".
C22_NormalizationIdempotent == Renormalized => cOut.value = cArgs[2]

(***************************************************************************)
(* Claims about the template matcher, checked under SpecCall               *)
(***************************************************************************)
\* the names of the documents that a key of the mapping rule set matches
\* once trimmed, lower-cased and with underscores as spaces
C21_MappedNames ==
    {"Infobox character", "Infobox_Character\n", " infobox place", "Quote", "QUOTE ", "quote"}
\* the invocations of the document, nested ones included, in document order
C21_Invocations == filter_templates(cArgs[1])
C21_Kept == {i \in DOMAIN C21_Invocations : C21_Invocations[i].name \in C21_MappedNames}

\* C21: find_mapped keeps a template invocation if and only if its name,
\* after trim, lowercase and underscores-to-spaces, is a key of the mapping
\* rule set; the results are in document order, nested invocations are
\* included, and several instances of the same mapped template each give
\* their own result.
C21_KeepsMappedInDocumentOrder ==
    Called("find_mapped_templates") =>
        /\ Len(cOut.value) = Cardinality(C21_Kept)
        /\ \A i \in C21_Kept :
              cOut.value[Cardinality({j \in C21_Kept : j <= i})] = C21_Invocations[i]
        /\ \A i \in DOMAIN C21_Invocations :
              i \in C21_Kept
                  <=> normalize_template_name(C21_Invocations[i].name) \in DOMAIN Mappings

\* a document with two instances of one mapped template and a mapped template
\* nested in the first
C21_Witness ==
    /\ Called("find_mapped_templates")
    /\ Len(cArgs[1]) = 2
    /\ cArgs[1][1].nested /= <<>>
    /\ cArgs[1][2] = Leaf("Infobox character", "a")
    /\ [k \in DOMAIN cOut.value |-> <<cOut.value[k].name, cOut.value[k].arg>>]
          = << <<"Infobox character", "c">>, <<"quote", "in">>, <<"Infobox character", "a">> >>

(***************************************************************************)
(* Claims about template-name normalization, checked under SpecCall        *)
(***************************************************************************)
\* the name with case, surrounding whitespace and the choice between
\* underscore and blank taken away: underscores are blanks, then the ends are
\* trimmed
Canon(n) == Strip(Replace(Lower(n), "_", " "))
\* the trimmed name neither starts nor ends with an underscore
EdgeFree(n) == \E t \in {Strip(n)} : At(t, 1) /= "_" /\ At(t, Len(t)) /= "_"
\* s has no leading and no trailing whitespace
Trimmed(s) == At(s, 1) \notin Space /\ At(s, Len(s)) \notin Space
\* what normalize_template_name returned for the name cArgs[1]
C29_First == IF Len(cArgs) = 1 THEN cOut.value ELSE cArgs[2]

\* C29: template-name normalization is idempotent and its output has no
\* leading or trailing whitespace, so a template name and a mapping key that
\* differ only in case, surrounding whitespace or underscores-versus-spaces
\* (including leading or trailing underscores) always match.
C29_NormalizationIdempotentAndTrimmed ==
    Called("normalize_template_name") =>
        /\ Len(cArgs) = 2 => cOut.value = cArgs[2]
        /\ Trimmed(C29_First)
        /\ \A k \in CNames :
              Canon(k) = Canon(cArgs[1]) => normalize_template_name(k) = C29_First

\* C29 (amended): that holds for the names whose trimmed form neither starts
\* nor ends with an underscore.  A leading or trailing underscore becomes a
\* blank after the trimming, so the output of such a name starts or ends
\* with a blank, a second normalization removes it, and the name does not
\* match the same name written without that underscore.
C29_IdempotentAndTrimmedWithoutEdgeUnderscores ==
    Called("normalize_template_name") =>
        IF EdgeFree(cArgs[1])
        THEN /\ Len(cArgs) = 2 => cOut.value = cArgs[2]
             /\ Trimmed(C29_First)
             /\ C29_First = Canon(cArgs[1])
             /\ \A k \in CNames :
                   (EdgeFree(k) /\ Canon(k) = Canon(cArgs[1]))
                       => normalize_template_name(k) = C29_First
        ELSE /\ ~Trimmed(C29_First)
             /\ Len(cArgs) = 2 => cOut.value /= cArgs[2]
             /\ C29_First /= Canon(cArgs[1])

\* a name in another case, with an underscore and surrounding whitespace,
\* normalized twice
C29_Witness ==
    /\ Called("normalize_template_name")
    /\ cArgs = <<" infobox_character\n", "infobox character">>
    /\ cOut.value = "infobox character"
    /\ normalize_template_name("INFOBOX CHARACTER") = cOut.value

(***************************************************************************)
(* build_graph_for_title called from several workers over one cache        *)
(* directory and one mappings dictionary.  Every call runs the statements  *)
(* of build_kg.py:297-329 in order, on its own locals; the steps of the    *)
(* calls interleave freely.                                                *)
(***************************************************************************)
MaxCalls == 3

Workers == {"w1", "w2"}
\* the arguments of the calls: title and include_infobox
WCalls ==
    {<<"Elrond", TRUE>>, <<"Minas Tirith", TRUE>>, <<"Quotes", TRUE>>, <<"Lost", FALSE>>}
NoJson == [links |-> <<>>, externallinks |-> <<>>, templates |-> <<>>]
\* a worker that is in no call
IdleWorker ==
    [pc |-> "idle", title |-> "", include |-> FALSE, since |-> 0, parse_json |-> NoJson,
     g |-> {}, tmpls |-> <<>>]

\* the calls made so far
CallsMade == Len(returned) + Cardinality({w \in Workers : workers[w].pc /= "idle"})

\* what a call that ends leaves in the record of the calls
Ended(wk, status, g) ==
    [title |-> wk.title, include |-> wk.include, since |-> wk.since,
     status |-> status, g |-> g]

InitWorkers ==
    /\ mode = "workers"
    /\ workers = [w \in Workers |-> IdleWorker]
    /\ ruleSet = Mappings
    /\ returned = <<>>
    /\ FieldIdle
    /\ BuildIdle
    /\ DriverIdle
    /\ CallIdle
    /\ PipeIdle

\* what no step of build_graph_for_title touches
WorkerFrame ==
    /\ UNCHANGED mode
    /\ UNCHANGED fieldVars
    /\ UNCHANGED buildVars
    /\ UNCHANGED driverVars
    /\ UNCHANGED callVars
    /\ UNCHANGED pipeVars

\* build_kg.py:297-301: a worker enters build_graph_for_title(title, mappings,
\* include_infobox); parse_cached_json raises, or the payload is read
WCall ==
    /\ mode = "workers"
    /\ CallsMade < MaxCalls
    /\ \E w \in Workers, args \in WCalls :
          /\ workers[w].pc = "idle"
          /\ \E path \in {cached_path_for_title(args[1])} :
                \E wk \in {[IdleWorker EXCEPT !.title = args[1], !.include = args[2],
                                               !.since = Len(returned)]} :
                   IF path \notin DOMAIN FileSystem
                   THEN /\ returned' = Append(returned, Ended(wk, "FileNotFoundError", {}))
                        /\ UNCHANGED workers
                   ELSE /\ workers' = [workers EXCEPT ![w] =
                                          [wk EXCEPT !.pc = "core",
                                                     !.parse_json = FileSystem[path]]]
                        /\ UNCHANGED returned
    /\ UNCHANGED ruleSet
    /\ WorkerFrame

\* WCore on a graph that outlives the calls: the statements of the call that
\* ended last are still in it
WCore_KeepsGraph ==
    /\ mode = "workers"
    /\ \E w \in Workers :
          /\ workers[w].pc = "core"
          /\ workers' = [workers EXCEPT
                            ![w].pc = "links",
                            ![w].g = (IF returned = <<>> THEN {}
                                      ELSE returned[Len(returned)].g)
                                     \cup add_core_triples(workers[w].title)]
    /\ UNCHANGED <<ruleSet, returned>>
    /\ WorkerFrame

\* build_kg.py:303-305: g = Graph(), add_core_triples(g, title)
WCore ==
    /\ mode = "workers"
    /\ \E w \in Workers :
          /\ workers[w].pc = "core"
          /\ workers' = [workers EXCEPT ![w].pc = "links",
                                        ![w].g = add_core_triples(workers[w].title)]
    /\ UNCHANGED <<ruleSet, returned>>
    /\ WorkerFrame

\* build_kg.py:308-323: the loop over the links, then the loop over the
\* external links
WLinks ==
    /\ mode = "workers"
    /\ \E w \in Workers :
          /\ workers[w].pc = "links"
          /\ workers' = [workers EXCEPT
                            ![w].pc = "find",
                            ![w].g = @ \cup
                                {Triple(resource_uri(workers[w].title), SCHEMA_relatedTo,
                                        URIRef(resource_uri(lt))) :
                                    lt \in Range(extract_links(workers[w].parse_json.links))}
                                \cup
                                {external_triple(page_uri(workers[w].title),
                                                 resource_uri(workers[w].title), u) :
                                    u \in Range(workers[w].parse_json.externallinks)}]
    /\ UNCHANGED <<ruleSet, returned>>
    /\ WorkerFrame

\* build_kg.py:325-326: the list find_mapped_templates returns, when
\* include_infobox is set
WFind ==
    /\ mode = "workers"
    /\ \E w \in Workers :
          /\ workers[w].pc = "find"
          /\ workers' = [workers EXCEPT
                            ![w].pc = "apply",
                            ![w].tmpls =
                                IF workers[w].include
                                THEN find_mapped_templates(workers[w].parse_json.templates,
                                                           ruleSet)
                                ELSE <<>>]
    /\ UNCHANGED <<ruleSet, returned>>
    /\ WorkerFrame

\* WApply by an apply_infobox that takes the field rules out of the mappings
\* as it uses them
WApply_ConsumesRules ==
    /\ mode = "workers"
    /\ \E w \in Workers :
          /\ workers[w].pc = "apply"
          /\ workers[w].tmpls /= <<>>
          /\ \E res \in {apply_infobox(resource_uri(workers[w].title),
                                       Head(workers[w].tmpls), ruleSet)} :
                IF res.raised
                THEN /\ returned' = Append(returned, Ended(workers[w], "KeyError", {}))
                     /\ workers' = [workers EXCEPT ![w] = IdleWorker]
                ELSE /\ workers' = [workers EXCEPT ![w].g = @ \cup res.g,
                                                   ![w].tmpls = Tail(@)]
                     /\ UNCHANGED returned
          /\ ruleSet' = [k \in DOMAIN ruleSet |->
                            IF k = normalize_template_name(Head(workers[w].tmpls).name)
                            THEN [f \in DOMAIN ruleSet[k] \ {"fields"} |-> ruleSet[k][f]]
                            ELSE ruleSet[k]]
    /\ WorkerFrame

\* build_kg.py:326-327: apply_infobox on the next mapped template; its
\* KeyError ends the call
WApply ==
    /\ mode = "workers"
    /\ \E w \in Workers :
          /\ workers[w].pc = "apply"
          /\ workers[w].tmpls /= <<>>
          /\ \E res \in {apply_infobox(resource_uri(workers[w].title),
                                       Head(workers[w].tmpls), ruleSet)} :
                IF res.raised
                THEN /\ returned' = Append(returned, Ended(workers[w], "KeyError", {}))
                     /\ workers' = [workers EXCEPT ![w] = IdleWorker]
                ELSE /\ workers' = [workers EXCEPT ![w].g = @ \cup res.g,
                                                   ![w].tmpls = Tail(@)]
                     /\ UNCHANGED returned
    /\ UNCHANGED ruleSet
    /\ WorkerFrame

\* build_kg.py:329: return g
WReturn ==
    /\ mode = "workers"
    /\ \E w \in Workers :
          /\ workers[w].pc = "apply"
          /\ workers[w].tmpls = <<>>
          /\ returned' = Append(returned, Ended(workers[w], "ok", workers[w].g))
          /\ workers' = [workers EXCEPT ![w] = IdleWorker]
    /\ UNCHANGED ruleSet
    /\ WorkerFrame

NextWorkers ==
    \/ WCall
    \/ WCore
    \/ WLinks
    \/ WFind
    \/ WApply
    \/ WReturn
SpecWorkers == InitWorkers /\ [][NextWorkers]_vars

(***************************************************************************)
(* Claims about calls of build that follow or overlap one another, checked *)
(* under SpecWorkers                                                       *)
(***************************************************************************)
\* C11: two calls of build on identical input (same title, same cached
\* payload, same mapping rule set, same include_infobox) end the same way
\* and return set-equal statement sets, whatever was built in between: no
\* state is retained across calls.
C11_SameInputSameStatements ==
    \A i \in DOMAIN returned, j \in DOMAIN returned :
        (returned[i].title = returned[j].title /\ returned[i].include = returned[j].include)
            => /\ returned[i].status = returned[j].status
               /\ returned[i].g = returned[j].g

\* a page was built, then another page, then the first page again
C11_Witness ==
    /\ mode = "workers"
    /\ Len(returned) = 3
    /\ returned[1].since = 0 /\ returned[2].since = 1 /\ returned[3].since = 2
    /\ returned[1].title = "Elrond" /\ returned[1].include /\ returned[1].status = "ok"
    /\ returned[2].title = "Minas Tirith" /\ returned[2].status = "ok"
    /\ returned[3].title = "Elrond" /\ returned[3].include
    /\ returned[3].g = returned[1].g
    /\ returned[2].g /= returned[1].g

\* C12: build never changes the mapping rule set, and every call, however
\* its steps interleave with the steps of calls for other pages, ends as
\* the build of its page alone does and returns the same statement set.
C12_InterleavedBuildsAreIndependent ==
    /\ mode = "workers" => ruleSet = Mappings
    /\ \A i \in DOMAIN returned :
          \E alone \in {Builds[returned[i].title][returned[i].include]} :
             /\ returned[i].status = alone.status
             /\ returned[i].g = alone.g

\* two calls for different pages have returned statements, the second
\* having begun before the first ended
C12_Witness ==
    /\ mode = "workers"
    /\ \E i \in DOMAIN returned, j \in DOMAIN returned :
          /\ i < j
          /\ returned[j].since < i
          /\ returned[i].title /= returned[j].title
          /\ returned[i].status = "ok" /\ returned[j].status = "ok"
          /\ returned[i].include /\ returned[j].include
          /\ returned[i].g /= returned[j].g

(***************************************************************************)
(* The crawl step and the read of its cache: fetch_one (fetch_pages.py)    *)
(* stores the API response of a title, parse_cached_json (build_kg.py)     *)
(* loads the cached source of a title.  Both work in CACHE_DIR_PAGES.      *)
(***************************************************************************)
MaxFetches == 2

\* what the wiki answers to action=parse with redirects=1: the page id and
\* the title of the page the request resolves to (an empty title stands for
\* an answer whose "title" is empty or absent); no "parse" entry for a title
\* the wiki does not have
NoParse == [parse |-> FALSE, pageid |-> 0, title |-> ""]
Answer(pageid, title) == [parse |-> TRUE, pageid |-> pageid, title |-> title]
Wiki ==
    ("Elrond" :> Answer(7, "Elrond"))
    @@ ("Minas Tirith" :> Answer(12, "Minas Tirith"))
    @@ ("Mithrandir" :> Answer(9, "Gandalf"))
    @@ ("7" :> Answer(99, "7"))
    @@ ("Imladris" :> Answer(5, ""))
    @@ ("Nowhere" :> NoParse)
PTitles == DOMAIN Wiki

\* fetch_pages.py:29-30
pageid_cache_path(pageid) == path_join(CACHE_DIR_PAGES, ToDec(pageid) \o ".json")

\* fetch_pages.py:50-66 on the response data of the request for title, as a
\* transformer of the cache directory and the index file; the index record
\* carries real_title, the answered title or else the requested one
fetch_one(st, title, data, force) ==
    LET real_title == IF data.title /= "" THEN data.title ELSE title
    IN IF ~data.parse THEN [st EXCEPT !.result = "None"]
       ELSE IF ~force /\ pageid_cache_path(data.pageid) \in DOMAIN st.cacheDir
       THEN [st EXCEPT !.result = "data"]
       ELSE [cacheDir |-> (pageid_cache_path(data.pageid) :> data) @@ st.cacheDir,
             indexFile |-> Append(st.indexFile, [title |-> real_title, pageid |-> data.pageid]),
             result |-> "data"]

\* build_kg.py:133-138
parse_cached_json(title, dir) ==
    IF cached_path_for_title(title) \notin DOMAIN dir
    THEN [status |-> "FileNotFoundError", json |-> NoParse]
    ELSE [status |-> "ok", json |-> dir[cached_path_for_title(title)]]

InitPipeline ==
    /\ mode = "pipeline"
    /\ PipeIdle
    /\ FieldIdle
    /\ BuildIdle
    /\ DriverIdle
    /\ CallIdle
    /\ WorkersIdle

PipeFrame ==
    /\ UNCHANGED mode
    /\ UNCHANGED fieldVars
    /\ UNCHANGED buildVars
    /\ UNCHANGED driverVars
    /\ UNCHANGED callVars
    /\ UNCHANGED workerVars

\* fetch_one(client, title, force) when client.get_json returns
FetchOne ==
    /\ mode = "pipeline"
    /\ Len(fetched) < MaxFetches
    /\ \E title \in PTitles, force \in BOOLEAN :
       \E after \in {fetch_one([cacheDir |-> cacheDir, indexFile |-> indexFile,
                                 result |-> ""], title, Wiki[title], force)} :
          /\ cacheDir' = after.cacheDir
          /\ indexFile' = after.indexFile
          /\ fetched' = Append(fetched, [title |-> title, result |-> after.result])
    /\ UNCHANGED reads
    /\ PipeFrame

\* fetch_one(client, title, force) when client.get_json raises after its
\* retries (mw_client.py:48)
FetchRaises ==
    /\ mode = "pipeline"
    /\ Len(fetched) < MaxFetches
    /\ \E title \in PTitles :
          fetched' = Append(fetched, [title |-> title, result |-> "RuntimeError"])
    /\ UNCHANGED <<cacheDir, indexFile, reads>>
    /\ PipeFrame

\* parse_cached_json(title), the first statement of build_graph_for_title
ReadCached ==
    /\ mode = "pipeline"
    /\ \E title \in PTitles :
       \E res \in {parse_cached_json(title, cacheDir)} :
          reads' = [ran |-> TRUE, title |-> title, after |-> Len(fetched),
                    status |-> res.status, json |-> res.json]
    /\ UNCHANGED <<cacheDir, indexFile, fetched>>
    /\ PipeFrame

NextPipeline ==
    \/ FetchOne
    \/ FetchRaises
    \/ ReadCached
SpecPipeline == InitPipeline /\ [][NextPipeline]_vars

(***************************************************************************)
(* Claims about the cache location, checked under SpecPipeline             *)
(***************************************************************************)
\* the calls of fetch_one for the title just read that returned the page
\* before the read
FetchedBeforeRead ==
    {n \in 1..reads.after : fetched[n].title = reads.title /\ fetched[n].result = "data"}

\* C30: after fetch_one has fetched and cached a page for a title without
\* error, build for the same title finds the cached source: the location the
\* fetch step writes is the location parse_cached_json reads for that title,
\* so the missing-source failure is raised only for titles that were never
\* fetched.
C30_FetchedTitleIsFound ==
    (mode = "pipeline" /\ reads.ran) =>
        /\ FetchedBeforeRead /= {} =>
              /\ reads.status = "ok"
              /\ pageid_cache_path(Wiki[reads.title].pageid)
                    = cached_path_for_title(reads.title)
        /\ reads.status = "FileNotFoundError" => FetchedBeforeRead = {}

=============================================================================
